---------------------------- MODULE Spec2Model ----------------------------
(***************************************************************************)
(* A model of retracesoftware/utils.  The thread-coordination primitives:   *)
(* BlockingCounter (counter.cpp), Demultiplexer (demux.cpp), the Gate      *)
(* family (gate.cpp), ThreadState (threadstate.cpp) and the frame-         *)
(* evaluation hook (frameeval.cpp); every thread is a small state machine  *)
(* over the statements of the C++ methods, and the interpreter's global    *)
(* lock (GIL), the native mutexes and the condition variables are explicit *)
(* state.  The containers and call helpers: Stack / StackFactory           *)
(* (stack.cpp), StableSet (wrappedmember.cpp), patch_hash, WrappedFunction *)
(* (wrappedfunction.cpp), IdDict, RunAll, IdSet and FastSet (fastset.cpp), *)
(* CollectPred, the on-alloc callbacks (onalloc.cpp) and create_wrapped    *)
(* (wrapped.cpp), each as the operations of the object on its fields.      *)
(***************************************************************************)
EXTENDS Integers, Sequences, FiniteSets, TLC

VARIABLES
    gil,          \* holder of the interpreter's global lock, or NoThread
    bc_counter,   \* BlockingCounter::counter
    bc_mtx,       \* holder of BlockingCounter::mtx, or NoThread
    bc_waiting,   \* threads parked inside BlockingCounter::cv
    bc_pc,        \* per thread: position inside BlockingCounter::next
    bc_seq,       \* per thread: the argument seq of its next(seq) call
    bc_ret,       \* per thread: value returned by next, or -1
    bc_served,    \* the seq values in the order their calls executed counter++
    bc_trapped,   \* raise(SIGTRAP) was executed: the process is gone
    dm_next,      \* Demultiplexer::next: the lookahead item, or NoItem (nullptr)
    dm_src_calls, \* how many times the source callable has been invoked
    dm_pending,   \* Demultiplexer::pending: the map key -> waiting thread
    dm_pending_keys, \* Demultiplexer::pending_keys: the Python set of keys
    dm_on_timeout,\* Demultiplexer::on_timeout is set (not nullptr)
    dm_mtx,       \* holder of Demultiplexer::mtx, or NoThread
    dm_waiting,   \* threads parked inside Demultiplexer::wakeup
    dm_pc,        \* per thread: position inside Demultiplexer::get
    dm_site,      \* per thread: who called ensure_next / test_pending
    dm_key,       \* per thread: the key argument of its get(key) call
    dm_next_key,  \* per thread: test_pending's local next_key
    dm_timedout,  \* per thread: the deadline of its wait_for has passed
    dm_ncalls,    \* number of get calls made so far
    dm_log,       \* per thread: its finished get calls in order: key, outcome, item
    dm_aborted,   \* an exception left get uncaught: the process is gone
    cache,        \* gate.cpp's global GateCache: tstate, gate, executor
    default_executor, \* per gate: Gate::default_executor, or NoExecutor (NULL)
    thread_dict,  \* per thread: PyThreadState_GetDict() restricted to the gates
    gate_own,     \* per thread and gate: the thread's latest set / disable
    gate_used,    \* the threads that have used a gate so far
    gate_last,    \* the latest BoundGate call: who, which gate, what it called
    gate_stack,   \* per thread: the open ApplyWith calls and GateContext scopes
    ctx_old,      \* per thread, gate, new executor: GateContext::old_executor
    scope_last,   \* the latest scope that was left: what resolved before and after
    last_thread_state,     \* per thread: threadstate.cpp's thread_local last_thread_state
    last_per_thread_state, \* per thread: its thread_local last_per_thread_state
    ts_dict,      \* per thread: PyThreadState_GetDict() restricted to the ThreadStates
    ts_stack,     \* per thread: its open select scopes and wrapped calls
    ts_used,      \* per thread: the ThreadStates it has used so far
    ts_op,        \* the latest ThreadState operation: who, what, on which, from what
    eval_frame,   \* the interpreter's frame-evaluation function
    fe_original,  \* the frame-evaluation function the interpreter started with
    fe_entry,     \* the FrameEval record under interpreter_key, or NoEntry
    fe_installs,  \* how many FrameEval records have been allocated
    fe_round,     \* Installs since the latest Remove, and whether a Remove came last
    in_callback,  \* per thread: frameeval.cpp's thread_local in_callback
    fe_stack,     \* per thread: its activations of wrapper, innermost last
    fe_last,      \* the latest call that wrapper returned from
    fe_crashed,   \* a freed FrameEval record was used and the process died
    current,      \* per thread: where its CurrentFrame object's frame points
    fe_read,      \* the latest read of function / locals / globals on a CurrentFrame
    py_frames,    \* the thread's interpreter frames, oldest first: func and instruction
    exclude,      \* StackFactory::exclude
    sf_heap,      \* per address: the Stack node there (func, instruction, index, next)
    sf_cached,    \* the thread's cached snapshot (head node), or NoStack
    sf_op,        \* the latest StackFactory / Stack operation and its result
    sf_replay,    \* the results of the delta() calls so far applied to an empty stack
    sf_pure,      \* only delta() has touched the cache so far
    ss_set,       \* StableSet hash table: per value the address of the key it holds, or 0
    ss_order,     \* StableSet::order
    ss_refs,      \* the objects the caller still holds a reference to
    ss_live,      \* the elements of the set in the order they were last added
    ss_op,        \* the latest StableSet operation and its result
    ss_crashed,   \* freed memory was used and the process died
    ph_alive,     \* the addresses at which an instance of the patched type lives
    hashes,       \* the global cache: per address the cached hash, or NoHash
    ph_counter,   \* the next value of the Counter the user's hash function returns
    ph_pc,        \* per thread: where it is inside hashfunc, and on which object
    ph_first,     \* per live instance: what the first successful hash() returned
    ph_last,      \* per live instance: what the latest successful hash() returned
    wf_in,        \* the call: source generation, positional arguments, keywords, and whether the caller lends args[-1]
    wf_pc,        \* where the call is: ready, handler, returned or crashed
    wf_seen,      \* what the handler was called with
    wf_calls,     \* how many times the handler was called
    wf_slot,      \* what the caller's slot args[-1] holds
    wf_ret,       \* what the handler and the wrapper returned
    id_alive,     \* the addresses at which a key object lives
    id_lives,     \* per address: how many objects have lived there
    contents,     \* IdDict::contents: per key address the mapped value, or NoValue
    id_weakrefs,  \* the keys that have a weak reference with a WeakRefCallback
    id_held,      \* per value: how many references the dictionary holds to it
    id_expected,  \* per key object: the value last assigned through it while it lives
    id_op,        \* the latest IdDict operation and its result
    id_crashed,   \* the callback found no entry and the process died
    functions,    \* RunAll::functions: per callable what it does when called
    ra_args,      \* the arguments of the call
    ra_i,         \* the loop index of RunAll::call (from 1)
    ra_log,       \* the calls made so far: which callable, with what arguments
    ra_result,    \* how the call ended: still running, raised by a callable, or None
    is_contents,  \* per set (IdSet::contents, FastSet::impl): the addresses in it
    is_refs,      \* per set and object: how many references the set holds to it
    is_op,        \* the latest IdSet / FastSet operation: whether the object was a member before, and the result
    is_crashed,   \* a reference that was not the set's was released and the process died
    generations,  \* the collector's generations: count and threshold of each
    cp_arg,       \* the multiplier CollectPred was constructed with
    multiplier,   \* CollectPred::multiplier, the int field
    cp_called,    \* the predicate has been called
    cp_result,    \* what the call returned, -1 for the none-value
    oa_types,     \* the types that exist
    tp_alloc,     \* per type: its allocation slot
    allocfuncs,   \* the types with an entry in the map of original allocators
    tp_dict,      \* per type: the callback under the reserved key of its own dictionary
    oa_pc,        \* where the allocation in progress is
    oa_type,      \* the type being allocated
    oa_cls,       \* find_callback's cls
    oa_spins,     \* iterations of the lookup that found no callback
    oa_result,    \* how the latest allocation ended
    cw_cls,       \* the type create_wrapped was called with
    cw_target,    \* the target it was called with
    cw_pc,        \* where the call is
    cw_error,     \* the error indicator of the thread
    cw_self       \* the target of the instance returned, 0 while there is none

bcVars == <<bc_counter, bc_mtx, bc_waiting, bc_pc, bc_seq, bc_ret, bc_served, bc_trapped>>

dmShared == <<dm_next, dm_src_calls, dm_pending, dm_pending_keys, dm_on_timeout,
              dm_mtx, dm_waiting, dm_ncalls, dm_log, dm_aborted>>

dmLocal == <<dm_pc, dm_site, dm_key, dm_next_key, dm_timedout>>

dmVars == <<dmShared, dmLocal>>

gateVars == <<cache, default_executor, thread_dict, gate_own, gate_used, gate_last>>

scopeVars == <<gate_stack, ctx_old, scope_last>>

tsVars == <<last_thread_state, last_per_thread_state, ts_dict, ts_stack, ts_used, ts_op>>

feVars == <<eval_frame, fe_original, fe_entry, fe_installs, fe_round, in_callback,
            fe_stack, fe_last, fe_crashed, current, fe_read>>

stackVars == <<py_frames, exclude, sf_heap, sf_cached, sf_op, sf_replay, sf_pure>>

ssVars == <<ss_set, ss_order, ss_refs, ss_live, ss_op, ss_crashed>>

phVars == <<ph_alive, hashes, ph_counter, ph_pc, ph_first, ph_last>>

wfVars == <<wf_in, wf_pc, wf_seen, wf_calls, wf_slot, wf_ret>>

idVars == <<id_alive, id_lives, contents, id_weakrefs, id_held, id_expected, id_op, id_crashed>>

raVars == <<functions, ra_args, ra_i, ra_log, ra_result>>

isVars == <<is_contents, is_refs, is_op, is_crashed>>

cpVars == <<generations, cp_arg, multiplier, cp_called, cp_result>>

oaVars == <<oa_types, tp_alloc, allocfuncs, tp_dict, oa_pc, oa_type, oa_cls, oa_spins, oa_result>>

cwVars == <<cw_cls, cw_target, cw_pc, cw_error, cw_self>>

vars == <<gil, bcVars, dmVars, gateVars, scopeVars, tsVars, feVars, stackVars, ssVars, phVars, wfVars, idVars, raVars, isVars, cpVars, oaVars, cwVars>>

\* What the steps of one component leave alone: the other components' state.
notBC == <<dmVars, gateVars, scopeVars, tsVars, feVars, stackVars, ssVars, phVars, wfVars, idVars, raVars, isVars, cpVars, oaVars, cwVars>>

notDM == <<bcVars, gateVars, scopeVars, tsVars, feVars, stackVars, ssVars, phVars, wfVars, idVars, raVars, isVars, cpVars, oaVars, cwVars>>

notGate == <<gil, bcVars, dmVars, scopeVars, tsVars, feVars, stackVars, ssVars, phVars, wfVars, idVars, raVars, isVars, cpVars, oaVars, cwVars>>

notScope == <<gil, bcVars, dmVars, tsVars, feVars, stackVars, ssVars, phVars, wfVars, idVars, raVars, isVars, cpVars, oaVars, cwVars>>

notTS == <<gil, bcVars, dmVars, gateVars, scopeVars, feVars, stackVars, ssVars, phVars, wfVars, idVars, raVars, isVars, cpVars, oaVars, cwVars>>

notStack == <<gil, bcVars, dmVars, gateVars, scopeVars, tsVars, feVars, ssVars, phVars, wfVars, idVars, raVars, isVars, cpVars, oaVars, cwVars>>

notFE == <<gil, bcVars, dmVars, gateVars, scopeVars, tsVars, stackVars, ssVars, phVars, wfVars, idVars, raVars, isVars, cpVars, oaVars, cwVars>>

notSS == <<gil, bcVars, dmVars, gateVars, scopeVars, tsVars, feVars, stackVars, phVars, wfVars, idVars, raVars, isVars, cpVars, oaVars, cwVars>>

notPH == <<gil, bcVars, dmVars, gateVars, scopeVars, tsVars, feVars, stackVars, ssVars, wfVars, idVars, raVars, isVars, cpVars, oaVars, cwVars>>

notWF == <<gil, bcVars, dmVars, gateVars, scopeVars, tsVars, feVars, stackVars, ssVars, phVars, idVars, raVars, isVars, cpVars, oaVars, cwVars>>

notID == <<gil, bcVars, dmVars, gateVars, scopeVars, tsVars, feVars, stackVars, ssVars, phVars, wfVars, raVars, isVars, cpVars, oaVars, cwVars>>

notRA == <<gil, bcVars, dmVars, gateVars, scopeVars, tsVars, feVars, stackVars, ssVars, phVars, wfVars, idVars, isVars, cpVars, oaVars, cwVars>>

notIS == <<gil, bcVars, dmVars, gateVars, scopeVars, tsVars, feVars, stackVars, ssVars, phVars, wfVars, idVars, raVars, cpVars, oaVars, cwVars>>

notCP == <<gil, bcVars, dmVars, gateVars, scopeVars, tsVars, feVars, stackVars, ssVars, phVars, wfVars, idVars, raVars, isVars, oaVars, cwVars>>

notOA == <<gil, bcVars, dmVars, gateVars, scopeVars, tsVars, feVars, stackVars, ssVars, phVars, wfVars, idVars, raVars, isVars, cpVars, cwVars>>

notCW == <<gil, bcVars, dmVars, gateVars, scopeVars, tsVars, feVars, stackVars, ssVars, phVars, wfVars, idVars, raVars, isVars, cpVars, oaVars>>

NoThread == 0

-----------------------------------------------------------------------------
(***************************************************************************)
(* BlockingCounter                                                         *)
(***************************************************************************)

\* Number of threads that each call BlockingCounter.next once.
BCThreadCount == 3

BCThreads == 1 .. BCThreadCount

BCSeqs == 0 .. (BCThreadCount - 1)

\* BlockingCounter::init: counter = 0, fresh mutex and condition variable.
\* Each thread is about to call next(bc_seq[t]) for an arbitrary seq.
BCInit ==
    /\ bc_counter = 0
    /\ bc_mtx = NoThread
    /\ bc_waiting = {}
    /\ bc_pc = [t \in BCThreads |-> "idle"]
    /\ bc_seq \in [BCThreads -> BCSeqs]
    /\ bc_ret = [t \in BCThreads |-> -1]
    /\ bc_served = <<>>
    /\ bc_trapped = FALSE

\* next_impl is entered by a Python thread, which holds the GIL.
BCCall(t) ==
    /\ ~bc_trapped
    /\ bc_pc[t] = "idle"
    /\ gil = NoThread
    /\ gil' = t
    /\ bc_pc' = [bc_pc EXCEPT ![t] = "begin"]
    /\ UNCHANGED <<bc_counter, bc_mtx, bc_waiting, bc_seq, bc_ret, bc_served, bc_trapped>>
    /\ UNCHANGED notBC

\* Py_BEGIN_ALLOW_THREADS: opens a block and releases the GIL.
BCAllowThreads(t) ==
    /\ ~bc_trapped
    /\ bc_pc[t] = "begin"
    /\ gil' = NoThread
    /\ bc_pc' = [bc_pc EXCEPT ![t] = "lock"]
    /\ UNCHANGED <<bc_counter, bc_mtx, bc_waiting, bc_seq, bc_ret, bc_served, bc_trapped>>
    /\ UNCHANGED notBC

\* std::unique_lock lk(mtx), and re-locking on the way out of cv.wait.
BCLock(t) ==
    /\ ~bc_trapped
    /\ bc_pc[t] \in {"lock", "relock"}
    /\ bc_mtx = NoThread
    /\ bc_mtx' = t
    /\ bc_pc' = [bc_pc EXCEPT ![t] = IF bc_pc[t] = "lock" THEN "check" ELSE "pred"]
    /\ UNCHANGED <<gil, bc_counter, bc_waiting, bc_seq, bc_ret, bc_served, bc_trapped>>
    /\ UNCHANGED notBC

\* A wait predicate that lets a call through before its turn.
BCWaitPredEarly(c, seq) == c <= seq

\* The predicate of cv.wait: [this, seq]{ return counter == seq; }
BCWaitPred(c, seq) == c = seq

\* if (seq < counter) raise(SIGTRAP);  if (counter != seq) cv.wait(lk, pred);
BCCheck(t) ==
    /\ ~bc_trapped
    /\ bc_pc[t] = "check"
    /\ IF bc_seq[t] < bc_counter
       THEN /\ bc_trapped' = TRUE
            /\ bc_pc' = [bc_pc EXCEPT ![t] = "trap"]
       ELSE /\ bc_trapped' = FALSE
            /\ bc_pc' = [bc_pc EXCEPT ![t] =
                            IF bc_counter # bc_seq[t] THEN "pred" ELSE "restore"]
    /\ UNCHANGED <<gil, bc_counter, bc_mtx, bc_waiting, bc_seq, bc_ret, bc_served>>
    /\ UNCHANGED notBC

\* cv.wait(lk, pred) is  while (!pred()) wait(lk);  this is one test of pred,
\* made while holding mtx.
BCPred(t) ==
    /\ ~bc_trapped
    /\ bc_pc[t] = "pred"
    /\ bc_pc' = [bc_pc EXCEPT ![t] =
                    IF BCWaitPred(bc_counter, bc_seq[t]) THEN "restore" ELSE "wait"]
    /\ UNCHANGED <<gil, bc_counter, bc_mtx, bc_waiting, bc_seq, bc_ret, bc_served, bc_trapped>>
    /\ UNCHANGED notBC

\* cv.wait(lk): atomically releases mtx and parks the thread.
BCBlock(t) ==
    /\ ~bc_trapped
    /\ bc_pc[t] = "wait"
    /\ bc_mtx' = NoThread
    /\ bc_waiting' = bc_waiting \cup {t}
    /\ bc_pc' = [bc_pc EXCEPT ![t] = "blocked"]
    /\ UNCHANGED <<gil, bc_counter, bc_seq, bc_ret, bc_served, bc_trapped>>
    /\ UNCHANGED notBC

\* A condition variable may wake a parked thread without a notification.
BCSpuriousWake(t) ==
    /\ ~bc_trapped
    /\ bc_pc[t] = "blocked"
    /\ t \in bc_waiting
    /\ bc_waiting' = bc_waiting \ {t}
    /\ bc_pc' = [bc_pc EXCEPT ![t] = "relock"]
    /\ UNCHANGED <<gil, bc_counter, bc_mtx, bc_seq, bc_ret, bc_served, bc_trapped>>
    /\ UNCHANGED notBC

\* Py_END_ALLOW_THREADS, first half: PyEval_RestoreThread(_save) takes the GIL
\* (lk still holds mtx).
BCRestoreThread(t) ==
    /\ ~bc_trapped
    /\ bc_pc[t] = "restore"
    /\ gil = NoThread
    /\ gil' = t
    /\ bc_pc' = [bc_pc EXCEPT ![t] = "unlock"]
    /\ UNCHANGED <<bc_counter, bc_mtx, bc_waiting, bc_seq, bc_ret, bc_served, bc_trapped>>
    /\ UNCHANGED notBC

\* Py_END_ALLOW_THREADS, second half: the closing brace of the block that
\* Py_BEGIN_ALLOW_THREADS opened ends the scope of lk, which unlocks mtx.
BCUnlock(t) ==
    /\ ~bc_trapped
    /\ bc_pc[t] = "unlock"
    /\ bc_mtx' = NoThread
    /\ bc_pc' = [bc_pc EXCEPT ![t] = "incr"]
    /\ UNCHANGED <<gil, bc_counter, bc_waiting, bc_seq, bc_ret, bc_served, bc_trapped>>
    /\ UNCHANGED notBC

\* counter++;
BCIncrement(t) ==
    /\ ~bc_trapped
    /\ bc_pc[t] = "incr"
    /\ bc_counter' = bc_counter + 1
    /\ bc_served' = Append(bc_served, bc_seq[t])
    /\ bc_pc' = [bc_pc EXCEPT ![t] = "notify"]
    /\ UNCHANGED <<gil, bc_mtx, bc_waiting, bc_seq, bc_ret, bc_trapped>>
    /\ UNCHANGED notBC

\* cv.notify_all(): every thread parked in cv leaves it and goes for mtx.
BCNotifyAll(t) ==
    /\ ~bc_trapped
    /\ bc_pc[t] = "notify"
    /\ bc_waiting' = {}
    /\ bc_pc' = [u \in BCThreads |->
                    IF u = t THEN "ret"
                    ELSE IF u \in bc_waiting THEN "relock" ELSE bc_pc[u]]
    /\ UNCHANGED <<gil, bc_counter, bc_mtx, bc_seq, bc_ret, bc_served, bc_trapped>>
    /\ UNCHANGED notBC

\* return counter;  the Python thread goes on and gives up the GIL.
BCReturn(t) ==
    /\ ~bc_trapped
    /\ bc_pc[t] = "ret"
    /\ bc_ret' = [bc_ret EXCEPT ![t] = bc_counter]
    /\ bc_pc' = [bc_pc EXCEPT ![t] = "done"]
    /\ gil' = NoThread
    /\ UNCHANGED <<bc_counter, bc_mtx, bc_waiting, bc_seq, bc_served, bc_trapped>>
    /\ UNCHANGED notBC

\* One step of BlockingCounter::next on thread t, wake-ups by notification only.
BCNextStep(t) ==
    \/ BCCall(t)
    \/ BCAllowThreads(t)
    \/ BCLock(t)
    \/ BCCheck(t)
    \/ BCPred(t)
    \/ BCBlock(t)
    \/ BCRestoreThread(t)
    \/ BCUnlock(t)
    \/ BCIncrement(t)
    \/ BCNotifyAll(t)
    \/ BCReturn(t)

BCNext == \E t \in BCThreads : BCNextStep(t) \/ BCSpuriousWake(t)

-----------------------------------------------------------------------------
(***************************************************************************)
(* Demultiplexer (the generation with on_timeout and timeout_seconds).     *)
(* Code that runs under the GIL without calling into Python is one step;   *)
(* a step ends where the thread gives up the GIL, blocks, or is inside a   *)
(* call of a Python callable (source, key_function), during which the      *)
(* interpreter may hand the GIL to another thread.                         *)
(***************************************************************************)

\* Number of items the source yields before it raises; item i is the i-th
\* object returned by the source.
DMItemCount == 3

\* Number of get calls made in one behaviour, over all consumer threads.
DMMaxCalls == 3

DMThreads == {1, 2}

DMItems == 1 .. DMItemCount

\* nullptr in Demultiplexer::next.
NoItem == 0

\* key_function(item): the source yields items keyed 1, 2, 3, ... in order.
DMKeyOf(item) == item

DMKeys == {DMKeyOf(i) : i \in DMItems}

\* Demultiplexer::init; on_timeout is optional.
DMInit ==
    /\ dm_next = NoItem
    /\ dm_src_calls = 0
    /\ dm_pending = <<>>
    /\ dm_pending_keys = {}
    /\ dm_on_timeout \in BOOLEAN
    /\ dm_mtx = NoThread
    /\ dm_waiting = {}
    /\ dm_pc = [t \in DMThreads |-> "idle"]
    /\ dm_site = [t \in DMThreads |-> "get"]
    /\ dm_key = [t \in DMThreads |-> 0]
    /\ dm_next_key = [t \in DMThreads |-> 0]
    /\ dm_timedout = [t \in DMThreads |-> FALSE]
    /\ dm_ncalls = 0
    /\ dm_log = [t \in DMThreads |-> <<>>]
    /\ dm_aborted = FALSE

\* An erase that leaves the entry in the map.
DMEraseNothing(m, k) == m

\* The map pending without / with an entry.
DMErase(m, k) == [x \in (DOMAIN m) \ {k} |-> m[x]]

DMPut(m, k, v) == [x \in (DOMAIN m) \cup {k} |-> IF x = k THEN v ELSE m[x]]

\* A thread is running code of get under the GIL.
DMRuns(t) == ~dm_aborted /\ gil = t

\* The finished calls of a thread with one more outcome: key, kind, item.
DMLogged(t, kind, item) ==
    [dm_log EXCEPT ![t] = Append(@, <<dm_key[t], kind, item>>)]

\* get returns: its frame, with key and the results of its tests, is gone.
DMReturn(t) ==
    /\ dm_pc' = [dm_pc EXCEPT ![t] = "idle"]
    /\ dm_site' = [dm_site EXCEPT ![t] = "get"]
    /\ dm_key' = [dm_key EXCEPT ![t] = 0]
    /\ dm_next_key' = [dm_next_key EXCEPT ![t] = 0]
    /\ dm_timedout' = [dm_timedout EXCEPT ![t] = FALSE]

\* An ensure_next that never calls the source.
DMNeedsNextNever == FALSE

\* if (!next) in ensure_next.
DMNeedsNext == dm_next = NoItem

\* call -> get(args[0]) on a Python thread, which holds the GIL.  get calls
\* ensure_next: with no lookahead item it calls the source; otherwise get
\* goes on to test_pending, whose own ensure_next finds the item, and which
\* calls key_function(next).
DMCall(t, k) ==
    /\ ~dm_aborted
    /\ dm_pc[t] = "idle"
    /\ gil = NoThread
    /\ dm_ncalls < DMMaxCalls
    /\ gil' = t
    /\ dm_ncalls' = dm_ncalls + 1
    /\ dm_key' = [dm_key EXCEPT ![t] = k]
    /\ UNCHANGED dm_timedout
    /\ IF DMNeedsNext
       THEN /\ dm_pc' = [dm_pc EXCEPT ![t] = "source"]
            /\ dm_site' = [dm_site EXCEPT ![t] = "get"]
            /\ dm_next_key' = dm_next_key
       ELSE /\ dm_pc' = [dm_pc EXCEPT ![t] = "key"]
            /\ dm_site' = [dm_site EXCEPT ![t] = "fast"]
            /\ dm_next_key' = [dm_next_key EXCEPT ![t] = DMKeyOf(dm_next)]
    /\ UNCHANGED <<dm_next, dm_src_calls, dm_pending, dm_pending_keys, dm_on_timeout,
                   dm_mtx, dm_waiting, dm_log, dm_aborted>>
    /\ UNCHANGED notDM

\* Positions inside a call of a Python callable: "source" inside
\* PyObject_CallNoArgs(source) before the source hands out its item, "key"
\* inside PyObject_CallOneArg(key_function, next).
DMCallbackPcs == {"source", "key"}

\* The interpreter takes the GIL from a thread that runs Python code ...
DMCallbackYield(t) ==
    /\ DMRuns(t)
    /\ dm_pc[t] \in DMCallbackPcs
    /\ gil' = NoThread
    /\ UNCHANGED dmVars
    /\ UNCHANGED notDM

\* ... and gives it back later.
DMCallbackResume(t) ==
    /\ ~dm_aborted
    /\ dm_pc[t] \in DMCallbackPcs
    /\ gil = NoThread
    /\ gil' = t
    /\ UNCHANGED dmVars
    /\ UNCHANGED notDM

\* What the source returns on its call number n + 1: the next item, or
\* nullptr (it raised) when it has no more.
DMSourceResult(n) == IF n < DMItemCount THEN n + 1 ELSE NoItem

\* if (!pending.empty()) wakeup.notify_all(): the threads parked in wakeup
\* leave it and go for mtx.
DMNotified(pcs) ==
    IF DOMAIN dm_pending # {}
    THEN [u \in DMThreads |-> IF u \in dm_waiting THEN "relock" ELSE pcs[u]]
    ELSE pcs

\* ensure_next, the source call returns:
\*   next = PyObject_CallNoArgs(source);  if (!next) return false;
\*   if (!pending.empty()) wakeup.notify_all();  return true;
\* On false get returns nullptr, and test_pending (in the wait predicate)
\* throws std::exception, which nothing catches.  On true the caller goes on
\* to key_function(next).
DMEnsureNext(t) ==
    /\ DMRuns(t)
    /\ dm_pc[t] = "source"
    /\ dm_src_calls' = dm_src_calls + 1
    /\ dm_next' = DMSourceResult(dm_src_calls)
    /\ IF DMSourceResult(dm_src_calls) = NoItem
       THEN /\ UNCHANGED dm_waiting
            /\ IF dm_site[t] = "get"
               THEN /\ dm_log' = DMLogged(t, "source_error", NoItem)
                    /\ DMReturn(t)
                    /\ gil' = NoThread
                    /\ dm_aborted' = FALSE
               ELSE /\ dm_aborted' = TRUE
                    /\ UNCHANGED <<dm_log, gil, dmLocal>>
       ELSE /\ dm_waiting' = IF DOMAIN dm_pending # {} THEN {} ELSE dm_waiting
            /\ dm_pc' = [DMNotified(dm_pc) EXCEPT ![t] = "key"]
            /\ dm_site' = [dm_site EXCEPT ![t] = IF @ = "get" THEN "fast" ELSE @]
            /\ dm_next_key' = [dm_next_key EXCEPT ![t] =
                                  DMKeyOf(DMSourceResult(dm_src_calls))]
            /\ UNCHANGED <<gil, dm_log, dm_aborted, dm_key, dm_timedout>>
    /\ UNCHANGED <<dm_pending, dm_pending_keys, dm_on_timeout, dm_mtx, dm_ncalls>>
    /\ UNCHANGED notDM

\* test_pending's result: key == next_key, or PyObject_RichCompareBool(.., Py_EQ).
DMMatches(t) == dm_key[t] = dm_next_key[t]

\* The position of get when key_function has returned on the fast path.
DMAtFastTest(t) == DMRuns(t) /\ dm_pc[t] = "key" /\ dm_site[t] = "fast"

\* get, fast path: if (test_pending(key)) { res = next; next = nullptr; return res; }
\* (res is nullptr when next is).  The thread goes on and gives up the GIL.
DMFastPath(t) ==
    /\ DMAtFastTest(t)
    /\ DMMatches(t)
    /\ dm_log' = DMLogged(t, "item", dm_next)
    /\ dm_next' = NoItem
    /\ DMReturn(t)
    /\ gil' = NoThread
    /\ UNCHANGED <<dm_src_calls, dm_pending, dm_pending_keys, dm_on_timeout, dm_mtx,
                   dm_waiting, dm_ncalls, dm_aborted>>
    /\ UNCHANGED notDM

\* A membership test that never finds the key.
DMIsPendingNever(k) == FALSE

\* PySet_Contains(pending_keys, key)
DMIsPending(k) == k \in dm_pending_keys

\* get: else if (PySet_Contains(pending_keys, key)) { PyErr_Format(ValueError, ..);
\* return nullptr; }
DMAlreadyPending(t) ==
    /\ DMAtFastTest(t)
    /\ ~DMMatches(t)
    /\ DMIsPending(dm_key[t])
    /\ dm_log' = DMLogged(t, "value_error", NoItem)
    /\ DMReturn(t)
    /\ gil' = NoThread
    /\ UNCHANGED <<dm_next, dm_src_calls, dm_pending, dm_pending_keys, dm_on_timeout,
                   dm_mtx, dm_waiting, dm_ncalls, dm_aborted>>
    /\ UNCHANGED notDM

\* get: else wait(key).  WaitingContext's constructor: pending[key] = thread;
\* PySet_Add(keys, key); save = PyEval_SaveThread() (releases the GIL).
DMWaitingContext(t) ==
    /\ DMAtFastTest(t)
    /\ ~DMMatches(t)
    /\ ~DMIsPending(dm_key[t])
    /\ dm_pending' = DMPut(dm_pending, dm_key[t], t)
    /\ dm_pending_keys' = dm_pending_keys \cup {dm_key[t]}
    /\ gil' = NoThread
    /\ dm_pc' = [dm_pc EXCEPT ![t] = "lock"]
    /\ UNCHANGED <<dm_next, dm_src_calls, dm_on_timeout, dm_mtx, dm_waiting, dm_ncalls,
                   dm_log, dm_aborted, dm_site, dm_key, dm_next_key, dm_timedout>>
    /\ UNCHANGED notDM

\* wait: std::unique_lock<std::mutex> lock(mtx), and re-locking on the way out
\* of a park; wakeup.wait_for then tests its predicate.
DMLock(t) ==
    /\ ~dm_aborted
    /\ dm_pc[t] \in {"lock", "relock"}
    /\ dm_mtx = NoThread
    /\ dm_mtx' = t
    /\ dm_pc' = [dm_pc EXCEPT ![t] = "pred"]
    /\ UNCHANGED <<gil, dm_next, dm_src_calls, dm_pending, dm_pending_keys, dm_on_timeout,
                   dm_waiting, dm_ncalls, dm_log, dm_aborted,
                   dm_site, dm_key, dm_next_key, dm_timedout>>
    /\ UNCHANGED notDM

\* The predicate of wait_for is test_pending(key): PyGILGuard gil takes the
\* GIL (PyGILState_Ensure), ensure_next calls the source if there is no
\* lookahead item, and then key_function(next) is called.
DMPredEnter(t) ==
    /\ ~dm_aborted
    /\ dm_pc[t] = "pred"
    /\ gil = NoThread
    /\ gil' = t
    /\ dm_site' = [dm_site EXCEPT ![t] = "pred"]
    /\ IF DMNeedsNext
       THEN /\ dm_pc' = [dm_pc EXCEPT ![t] = "source"]
            /\ dm_next_key' = dm_next_key
       ELSE /\ dm_pc' = [dm_pc EXCEPT ![t] = "key"]
            /\ dm_next_key' = [dm_next_key EXCEPT ![t] = DMKeyOf(dm_next)]
    /\ UNCHANGED <<dmShared, dm_key, dm_timedout>>
    /\ UNCHANGED notDM

\* The predicate returns (~PyGILGuard releases the GIL).  wait_for is
\*   while (!pred()) if (wait_until(lock, deadline) == timeout) return pred();
\*   return true;
\* and when it returns, wait returns and ~unique_lock unlocks mtx (lock is
\* destroyed before context).
DMPredReturn(t) ==
    /\ DMRuns(t)
    /\ dm_pc[t] = "key"
    /\ dm_site[t] = "pred"
    /\ gil' = NoThread
    /\ dm_pc' = [dm_pc EXCEPT ![t] =
                    IF DMMatches(t) THEN "matched"
                    ELSE IF dm_timedout[t] THEN "expired" ELSE "park"]
    /\ dm_mtx' = IF DMMatches(t) \/ dm_timedout[t] THEN NoThread ELSE dm_mtx
    /\ UNCHANGED <<dm_next, dm_src_calls, dm_pending, dm_pending_keys, dm_on_timeout,
                   dm_waiting, dm_ncalls, dm_log, dm_aborted,
                   dm_site, dm_key, dm_next_key, dm_timedout>>
    /\ UNCHANGED notDM

\* wait_until(lock, deadline): atomically releases mtx and parks the thread.
DMPark(t) ==
    /\ ~dm_aborted
    /\ dm_pc[t] = "park"
    /\ dm_mtx' = NoThread
    /\ dm_waiting' = dm_waiting \cup {t}
    /\ dm_pc' = [dm_pc EXCEPT ![t] = "parked"]
    /\ UNCHANGED <<gil, dm_next, dm_src_calls, dm_pending, dm_pending_keys, dm_on_timeout,
                   dm_ncalls, dm_log, dm_aborted,
                   dm_site, dm_key, dm_next_key, dm_timedout>>
    /\ UNCHANGED notDM

\* A condition variable may wake a parked thread without a notification.
DMSpuriousWake(t) ==
    /\ ~dm_aborted
    /\ dm_pc[t] = "parked"
    /\ dm_waiting' = dm_waiting \ {t}
    /\ dm_pc' = [dm_pc EXCEPT ![t] = "relock"]
    /\ UNCHANGED <<gil, dm_next, dm_src_calls, dm_pending, dm_pending_keys, dm_on_timeout,
                   dm_mtx, dm_ncalls, dm_log, dm_aborted,
                   dm_site, dm_key, dm_next_key, dm_timedout>>
    /\ UNCHANGED notDM

\* timeout_seconds have passed while the thread is parked: wait_until returns
\* timeout, and wait_for tests the predicate one last time.
DMTimeout(t) ==
    /\ ~dm_aborted
    /\ dm_pc[t] = "parked"
    /\ dm_waiting' = dm_waiting \ {t}
    /\ dm_timedout' = [dm_timedout EXCEPT ![t] = TRUE]
    /\ dm_pc' = [dm_pc EXCEPT ![t] = "relock"]
    /\ UNCHANGED <<gil, dm_next, dm_src_calls, dm_pending, dm_pending_keys, dm_on_timeout,
                   dm_mtx, dm_ncalls, dm_log, dm_aborted,
                   dm_site, dm_key, dm_next_key>>
    /\ UNCHANGED notDM

\* wait returned true.  ~WaitingContext: PyEval_RestoreThread(save);
\* PySet_Discard(keys, key); pending->erase(key);  then in get:
\* res = next; next = nullptr; return res;
DMSlowPath(t) ==
    /\ ~dm_aborted
    /\ dm_pc[t] = "matched"
    /\ gil = NoThread
    /\ dm_pending_keys' = dm_pending_keys \ {dm_key[t]}
    /\ dm_pending' = DMErase(dm_pending, dm_key[t])
    /\ dm_log' = DMLogged(t, "item", dm_next)
    /\ dm_next' = NoItem
    /\ DMReturn(t)
    /\ UNCHANGED <<gil, dm_src_calls, dm_on_timeout, dm_mtx, dm_waiting, dm_ncalls,
                   dm_aborted>>
    /\ UNCHANGED notDM

\* A timeout path that ignores on_timeout.
DMTimeoutAlwaysRaises == "runtime_error"

\* What get does after wait(key) returned false:
\*   if (on_timeout) return on_timeout(this, key);  else RuntimeError.
DMTimeoutOutcome == IF dm_on_timeout THEN "on_timeout" ELSE "runtime_error"

\* wait returned false.  ~WaitingContext as above, then the timeout outcome.
DMTimeoutPath(t) ==
    /\ ~dm_aborted
    /\ dm_pc[t] = "expired"
    /\ gil = NoThread
    /\ dm_pending_keys' = dm_pending_keys \ {dm_key[t]}
    /\ dm_pending' = DMErase(dm_pending, dm_key[t])
    /\ dm_log' = DMLogged(t, DMTimeoutOutcome, NoItem)
    /\ DMReturn(t)
    /\ UNCHANGED <<gil, dm_next, dm_src_calls, dm_on_timeout, dm_mtx, dm_waiting,
                   dm_ncalls, dm_aborted>>
    /\ UNCHANGED notDM

DMNext ==
    \E t \in DMThreads :
        \/ \E k \in DMKeys : DMCall(t, k)
        \/ DMCallbackYield(t)
        \/ DMCallbackResume(t)
        \/ DMEnsureNext(t)
        \/ DMFastPath(t)
        \/ DMAlreadyPending(t)
        \/ DMWaitingContext(t)
        \/ DMLock(t)
        \/ DMPredEnter(t)
        \/ DMPredReturn(t)
        \/ DMPark(t)
        \/ DMSpuriousWake(t)
        \/ DMTimeout(t)
        \/ DMSlowPath(t)
        \/ DMTimeoutPath(t)

-----------------------------------------------------------------------------
(***************************************************************************)
(* Gate and BoundGate.  Every method runs under the GIL from its first     *)
(* statement to the call of the target or the executor, so a method is one *)
(* step and the threads interleave between methods.                        *)
(***************************************************************************)

\* The thread states (PyThreadState *) of the live threads.
GateThreads == {1, 2}

Gates == {1, 2}

\* nullptr in cache.gate.
NoGate == 0

\* The callables passed to set, and the one passed as default.
GateExecutors == {"e1", "e2"}

\* A NULL executor: no override, no default, FastCall().callable == nullptr.
NoExecutor == "NULL"

\* static GateCache cache = {nullptr, nullptr, {}};  Gate::init: gate 1 is
\* Gate(), gate 2 is Gate(default=d); the thread dicts have no entry for a gate.
GateInit ==
    /\ cache = [tstate |-> NoThread, gate |-> NoGate, executor |-> NoExecutor]
    /\ default_executor = [g \in Gates |-> IF g = 1 THEN NoExecutor ELSE "d"]
    /\ thread_dict = [t \in GateThreads |-> [g \in Gates |-> NoExecutor]]
    /\ gate_own = [t \in GateThreads |-> [g \in Gates |-> "unset"]]
    /\ gate_used = {}
    /\ gate_last = <<>>

\* A cache test that compares the gate only.
GateCacheHitAnyThread(t, g) == cache.gate = g

\* !(cache.tstate != tstate || cache.gate != this)
GateCacheHit(t, g) == cache.tstate = t /\ cache.gate = g

\* Gate::load_cache: the dict entry, else default_executor, else NULL.
GateLoaded(t, g) ==
    [tstate |-> t,
     gate |-> g,
     executor |-> IF thread_dict[t][g] # NoExecutor THEN thread_dict[t][g]
                  ELSE default_executor[g]]

\* The cache after the test and, on a miss, load_cache.
GateChecked(t, g) == IF GateCacheHit(t, g) THEN cache ELSE GateLoaded(t, g)

\* Gate::executor(): what thread t resolves for gate g.
GateExecutor(t, g) == GateChecked(t, g).executor

\* A set_executor that leaves the cache as it is.
GateCacheKept(t, g, exec) == cache

\* The cache after Gate::set_executor(exec).
GateCacheSet(t, g, exec) ==
    [tstate |-> t,
     gate |-> g,
     executor |-> IF exec # NoExecutor THEN exec ELSE default_executor[g]]

\* Gate::set_executor: PyDict_SetItem or PyDict_DelItem on the thread's dict,
\* then the cache.
GateSetExecutor(t, g, exec) ==
    /\ thread_dict' = [thread_dict EXCEPT ![t][g] = exec]
    /\ cache' = GateCacheSet(t, g, exec)

\* Gate::set(executor) and the executor setter, with a callable.
GateSet(t, g, e) ==
    /\ GateSetExecutor(t, g, e)
    /\ gate_own' = [gate_own EXCEPT ![t][g] = e]
    /\ gate_used' = gate_used \cup {t}
    /\ UNCHANGED <<default_executor, gate_last>>
    /\ UNCHANGED notGate

\* Gate::disable(), Gate::set(None) and the executor setter with None.
GateDisable(t, g) ==
    /\ GateSetExecutor(t, g, NoExecutor)
    /\ gate_own' = [gate_own EXCEPT ![t][g] = "disabled"]
    /\ gate_used' = gate_used \cup {t}
    /\ UNCHANGED <<default_executor, gate_last>>
    /\ UNCHANGED notGate

\* Gate::is_set, the executor getter and repr: executor().
GateIsSet(t, g) ==
    /\ cache' = GateChecked(t, g)
    /\ gate_used' = gate_used \cup {t}
    /\ UNCHANGED <<default_executor, thread_dict, gate_own, gate_last>>
    /\ UNCHANGED notGate

\* BoundGate::call of gate.bind(f): the cache test, then f(*args) when
\* cache.executor.callable is nullptr and cache.executor(f, *args) otherwise.
\* gate_last notes what was called, and what the caller's history was.
BoundGateCall(t, g) ==
    /\ cache' = GateChecked(t, g)
    /\ gate_last' = [thread |-> t,
                     gate |-> g,
                     called |-> IF GateChecked(t, g).executor = NoExecutor
                                THEN "f()" ELSE GateChecked(t, g).executor,
                     own |-> gate_own[t][g],
                     alone |-> gate_used \subseteq {t},
                     owner |-> cache.tstate]
    /\ gate_used' = gate_used \cup {t}
    /\ UNCHANGED <<default_executor, thread_dict, gate_own>>
    /\ UNCHANGED notGate

GateNext ==
    \E t \in GateThreads, g \in Gates :
        \/ \E e \in GateExecutors : GateSet(t, g, e)
        \/ GateDisable(t, g)
        \/ GateIsSet(t, g)
        \/ BoundGateCall(t, g)

\* Thread t terminates (its dictionary is destroyed with it; no code of the
\* Gate runs) and a new thread is given the same PyThreadState address.
GateThreadReplaced(t) ==
    /\ thread_dict' = [thread_dict EXCEPT ![t] = [g \in Gates |-> NoExecutor]]
    /\ gate_own' = [gate_own EXCEPT ![t] = [g \in Gates |-> "unset"]]
    /\ UNCHANGED <<cache, default_executor, gate_used, gate_last>>
    /\ UNCHANGED notGate

\* Gate::dealloc: the cache is reset when it is for this gate.
GateDealloc(g) ==
    IF cache.gate = g
    THEN [tstate |-> NoThread, gate |-> NoGate, executor |-> NoExecutor]
    ELSE cache

\* The last reference to gate g goes (no thread dictionary has it as a key),
\* Gate::dealloc runs, and a new Gate is constructed at the same address,
\* with a default or without.
GateReplaced(g, default) ==
    /\ \A t \in GateThreads : thread_dict[t][g] = NoExecutor
    /\ cache' = GateDealloc(g)
    /\ default_executor' = [default_executor EXCEPT ![g] = default]
    /\ gate_own' = [t \in GateThreads |-> [gate_own[t] EXCEPT ![g] = "unset"]]
    /\ UNCHANGED <<thread_dict, gate_used, gate_last>>
    /\ UNCHANGED notGate

\* Programs whose threads and gates come and go.
GateReuseNext ==
    \/ \E t \in GateThreads, g \in Gates :
        \/ \E e \in GateExecutors : GateSet(t, g, e)
        \/ GateDisable(t, g)
        \/ GateIsSet(t, g)
    \/ \E t \in GateThreads : GateThreadReplaced(t)
    \/ \E g \in Gates, default \in {NoExecutor, "d"} : GateReplaced(g, default)

-----------------------------------------------------------------------------
(***************************************************************************)
(* ApplyWith and GateContext.  gate.apply_with(x)(f) is ApplyWith::call up *)
(* to the call of f, then whatever the thread does inside f, then the rest *)
(* of ApplyWith::call; a GateContext scope is __enter__, the block, and    *)
(* __exit__.  gate_stack keeps the open ones of a thread innermost last.   *)
(***************************************************************************)

\* How many ApplyWith calls and GateContext scopes a thread has open at most.
GateMaxDepth == 2

\* The thread that opens scopes; the other threads only resolve executors,
\* which takes the process-wide cache away from it.
ScopeThreads == {1}

\* What apply_with and Gate::call are given here: a callable, or None
\* (stored as NULL).
ScopeExecutors == {"e1", NoExecutor}

\* Nothing is open; every thread has one GateContext object per gate and
\* executor (gate(x) called once, the object kept), not entered yet.
ScopeInit ==
    /\ gate_stack = [t \in ScopeThreads |-> <<>>]
    /\ ctx_old = [t \in ScopeThreads |-> [g \in Gates |-> [x \in ScopeExecutors |-> NoExecutor]]]
    /\ scope_last = <<>>

\* The innermost open frame of a thread.
ScopeTop(t) == gate_stack[t][Len(gate_stack[t])]

ScopePopped(t) == [gate_stack EXCEPT ![t] = SubSeq(@, 1, Len(@) - 1)]

\* A frame: what was opened, on which gate, with which executor; what the
\* thread resolved just before, and just after it was opened.  For an
\* ApplyWith call, before is the local prev = gate->executor().
ScopeFrame(kind, g, x, before, entered) ==
    [kind |-> kind, gate |-> g, executor |-> x, before |-> before, entered |-> entered]

\* A scope was left: what the thread resolved before the scope was opened
\* against what it resolves now.
ScopeLeft(kind, before, after) == [kind |-> kind, before |-> before, after |-> after]

\* ApplyWith::call up to PyObject_Vectorcall(func, ..): prev = gate->executor();
\* gate->set_executor(self->executor).
ApplyWithEnter(t, g, x) ==
    /\ Len(gate_stack[t]) < GateMaxDepth
    /\ UNCHANGED default_executor
    /\ GateSetExecutor(t, g, x)
    /\ gate_stack' = [gate_stack EXCEPT ![t] =
           Append(@, ScopeFrame("apply", g, x, GateExecutor(t, g), GateExecutor(t, g)'))]
    /\ UNCHANGED <<gate_own, gate_used, gate_last, ctx_old, scope_last>>
    /\ UNCHANGED notScope

\* ApplyWith::call after func has returned or raised: gate->set_executor(prev).
ApplyWithExit(t, g) ==
    /\ gate_stack[t] # <<>>
    /\ ScopeTop(t).kind = "apply"
    /\ ScopeTop(t).gate = g
    /\ UNCHANGED default_executor
    /\ GateSetExecutor(t, g, ScopeTop(t).before)
    /\ gate_stack' = ScopePopped(t)
    /\ scope_last' = ScopeLeft("apply", ScopeTop(t).before, GateExecutor(t, g)')
    /\ UNCHANGED <<gate_own, gate_used, gate_last, ctx_old>>
    /\ UNCHANGED notScope

\* GateContext::enter: old_executor = gate->executor();
\* gate->set_executor(new_executor).
GateContextEnter(t, g, x) ==
    /\ Len(gate_stack[t]) < GateMaxDepth
    /\ ctx_old' = [ctx_old EXCEPT ![t][g][x] = GateExecutor(t, g)]
    /\ UNCHANGED default_executor
    /\ GateSetExecutor(t, g, x)
    /\ gate_stack' = [gate_stack EXCEPT ![t] =
           Append(@, ScopeFrame("ctx", g, x, GateExecutor(t, g), GateExecutor(t, g)'))]
    /\ UNCHANGED <<gate_own, gate_used, gate_last, scope_last>>
    /\ UNCHANGED notScope

\* The old_executor of the GateContext object whose scope is innermost.
GateContextOld(t) == ctx_old[t][ScopeTop(t).gate][ScopeTop(t).executor]

\* GateContext::exit: gate->set_executor(old_executor); old_executor = nullptr.
GateContextExit(t, g) ==
    /\ gate_stack[t] # <<>>
    /\ ScopeTop(t).kind = "ctx"
    /\ ScopeTop(t).gate = g
    /\ UNCHANGED default_executor
    /\ GateSetExecutor(t, g, GateContextOld(t))
    /\ ctx_old' = [ctx_old EXCEPT ![t][g][ScopeTop(t).executor] = NoExecutor]
    /\ gate_stack' = ScopePopped(t)
    /\ scope_last' = ScopeLeft("ctx", ScopeTop(t).before, GateExecutor(t, g)')
    /\ UNCHANGED <<gate_own, gate_used, gate_last>>
    /\ UNCHANGED notScope

\* Gate::set(e2) / Gate::disable called inside or outside a scope.
ScopeSet(t, g, x) ==
    /\ GateSetExecutor(t, g, x)
    /\ UNCHANGED <<default_executor, gate_own, gate_used, gate_last>>
    /\ UNCHANGED scopeVars
    /\ UNCHANGED notScope

\* Gate::executor() called on a thread, through is_set, the executor getter,
\* a BoundGate or a GatePredicate.
ScopeResolve(t, g) ==
    /\ cache' = GateChecked(t, g)
    /\ UNCHANGED <<default_executor, thread_dict, gate_own, gate_used, gate_last>>
    /\ UNCHANGED scopeVars
    /\ UNCHANGED notScope

ScopeNext ==
    \/ \E t \in ScopeThreads, g \in Gates :
        \/ \E x \in ScopeExecutors : ApplyWithEnter(t, g, x)
        \/ ApplyWithExit(t, g)
        \/ \E x \in ScopeExecutors : GateContextEnter(t, g, x)
        \/ GateContextExit(t, g)
        \/ \E x \in {"e2", NoExecutor} : ScopeSet(t, g, x)
    \/ \E t \in GateThreads, g \in Gates : ScopeResolve(t, g)

-----------------------------------------------------------------------------
(***************************************************************************)
(* ThreadState (threadstate.cpp): a per-thread state chosen from a fixed   *)
(* tuple.  The thread's value lives in the thread's dictionary and in a    *)
(* one-entry thread_local cache (last_thread_state, last_per_thread_state).*)
(* Every method runs under the GIL in one step; the body of a select scope *)
(* or of a wrapped function is the steps the thread takes while its frame  *)
(* is open.                                                                *)
(***************************************************************************)

TSMaxDepth == 2

TSThreads == {1, 2}

ThreadStates == {1}

\* The descriptors that exist; programs of the second specification use both.
TSDescriptors == {1, 2}

NoThreadState == 0

NoState == "NULL"

\* Both descriptors are constructed as ThreadState("A", "B").
avaliable_states(s) == <<"A", "B">>

default_state(s) == avaliable_states(s)[1]

\* What a program may assign to value: the states and one stranger.
TSWritten == {"A", "B", "Z"}

TSIndexes(s) == {i - 1 : i \in DOMAIN avaliable_states(s)}

state_for(s, i) == avaliable_states(s)[i + 1]

index_of(s, state) ==
    IF \E i \in TSIndexes(s) : state_for(s, i) = state
    THEN CHOOSE i \in TSIndexes(s) : state_for(s, i) = state
    ELSE -1

\* The cache is thread_local: every thread has a slot of its own.
TSSlotShared(t) == 1

TSSlot(t) == t

\* The part of the state a method called by thread t can see.
TSLocal(t) ==
    [last |-> last_thread_state[TSSlot(t)],
     idx  |-> last_per_thread_state[TSSlot(t)],
     dict |-> ts_dict[t]]

\* ThreadState::index: the value returned (ret) and the state left behind (st).
index(L, s) ==
    IF L.last = s
    THEN [ret |-> L.idx, st |-> L]
    ELSE LET dict == IF L.dict[s] = NoState
                     THEN [L.dict EXCEPT ![s] = default_state(s)]
                     ELSE L.dict
             i == index_of(s, dict[s])
         IN [ret |-> i,
             st  |-> IF i >= 0 THEN [last |-> s, idx |-> i, dict |-> dict]
                               ELSE [L EXCEPT !.dict = dict]]

per_thread_state(L, s) ==
    LET i == index(L, s).ret IN IF i >= 0 THEN state_for(s, i) ELSE NoState

\* A set_state_by_index that stores nothing.
TSIndexKept(L, s, i) == L

set_state_by_index(L, s, i) ==
    IF L.last # NoThreadState /\ L.last # s
    THEN [last |-> s, idx |-> i,
          dict |-> [L.dict EXCEPT ![L.last] = state_for(s, L.idx)]]
    ELSE [L EXCEPT !.idx = i]

\* What thread t would read from s.value now.
TSValue(t, s) == per_thread_state(TSLocal(t), s)

TSInit ==
    /\ last_thread_state = [t \in TSThreads |-> NoThreadState]
    /\ last_per_thread_state = [t \in TSThreads |-> -1]
    /\ ts_dict = [t \in TSThreads |-> [s \in TSDescriptors |-> NoState]]
    /\ ts_stack = [t \in TSThreads |-> <<>>]
    /\ ts_used = [t \in TSThreads |-> {}]
    /\ ts_op = <<>>

\* Thread t's method on s leaves L behind.
TSStore(t, s, L) ==
    /\ last_thread_state' = [last_thread_state EXCEPT ![TSSlot(t)] = L.last]
    /\ last_per_thread_state' = [last_per_thread_state EXCEPT ![TSSlot(t)] = L.idx]
    /\ ts_dict' = [ts_dict EXCEPT ![t] = L.dict]
    /\ ts_used' = [ts_used EXCEPT ![t] = @ \cup {s}]

TSOp(t, kind, s, arg) ==
    [thread |-> t, kind |-> kind, state |-> s, arg |-> arg, prior |-> TSValue(t, s)]

value_getter(t, s) ==
    /\ TSStore(t, s, index(TSLocal(t), s).st)
    /\ ts_op' = TSOp(t, "get", s, per_thread_state(TSLocal(t), s))
    /\ UNCHANGED ts_stack
    /\ UNCHANGED notTS

value_setter(t, s, value) ==
    /\ IF index_of(s, value) < 0
       THEN /\ TSStore(t, s, TSLocal(t))
            /\ ts_op' = TSOp(t, "TypeError", s, value)
       ELSE /\ TSStore(t, s, set_state_by_index(TSLocal(t), s, index_of(s, value)))
            /\ ts_op' = TSOp(t, "set", s, value)
    /\ UNCHANGED ts_stack
    /\ UNCHANGED notTS

TSTop(t) == ts_stack[t][Len(ts_stack[t])]

\* The scopes and calls open in all threads together.
RECURSIVE TSOpenIn(_)
TSOpenIn(T) ==
    IF T = {} THEN 0
    ELSE LET t == CHOOSE u \in T : TRUE IN Len(ts_stack[t]) + TSOpenIn(T \ {t})

TSOpen == TSOpenIn(TSThreads)

TSFrame(kind, s, desired, previous, sticky, entered) ==
    [kind |-> kind, state |-> s, desired |-> desired, previous |-> previous,
     sticky |-> sticky, entered |-> entered]

\* GetIndex, then SetIndex(desired) unless the thread is in desired already:
\* the first statements of ThreadStateContext::enter and ThreadStateWrapped::call.
TSForce(L, s, desired) ==
    LET got == index(L, s)
    IN IF got.ret # desired THEN set_state_by_index(got.st, s, desired) ELSE got.st

\* with s.select(state_for(s, desired)): a new ThreadStateContext is entered.
ThreadStateContextEnter(t, s, desired) ==
    /\ TSOpen < TSMaxDepth
    /\ LET previous == index(TSLocal(t), s).ret
           L == TSForce(TSLocal(t), s, desired)
       IN /\ previous >= 0
          /\ TSStore(t, s, L)
          /\ ts_stack' = [ts_stack EXCEPT ![t] = Append(@,
                 TSFrame("select", s, desired, previous, FALSE, per_thread_state(L, s)))]
    /\ ts_op' = TSOp(t, "enter", s, state_for(s, desired))
    /\ UNCHANGED notTS

ThreadStateContextExit(t) ==
    /\ ts_stack[t] # <<>> /\ TSTop(t).kind = "select"
    /\ LET fr == TSTop(t)
       IN /\ TSStore(t, fr.state,
                     IF fr.previous # fr.desired
                     THEN set_state_by_index(TSLocal(t), fr.state, fr.previous)
                     ELSE TSLocal(t))
          /\ ts_op' = [TSOp(t, "exit", fr.state, state_for(fr.state, fr.desired))
                          EXCEPT !.prior = state_for(fr.state, fr.previous)]
    /\ ts_stack' = [ts_stack EXCEPT ![t] = SubSeq(@, 1, Len(@) - 1)]
    /\ UNCHANGED notTS

\* s.wrap(state_for(s, desired), function, sticky)(...): the call up to the
\* point where function starts to run.
ThreadStateWrappedCall(t, s, desired, sticky) ==
    /\ TSOpen < TSMaxDepth
    /\ LET previous == index(TSLocal(t), s).ret
           L == TSForce(TSLocal(t), s, desired)
       IN /\ previous >= 0
          /\ TSStore(t, s, L)
          /\ ts_stack' = [ts_stack EXCEPT ![t] = Append(@,
                 TSFrame("wrap", s, desired, previous, sticky, per_thread_state(L, s)))]
    /\ ts_op' = TSOp(t, "call", s, state_for(s, desired))
    /\ UNCHANGED notTS

\* ThreadStateWrapped::wrap_result on a result that is callable or not.
wrap_result(sticky, callable) == sticky /\ callable

\* function returns a result: the rest of ThreadStateWrapped::call.
ThreadStateWrappedReturn(t, callable) ==
    /\ ts_stack[t] # <<>> /\ TSTop(t).kind = "wrap"
    /\ LET fr == TSTop(t)
       IN IF fr.previous = fr.desired
          THEN /\ TSStore(t, fr.state, TSLocal(t))
               /\ ts_op' = [thread |-> t, kind |-> "return", state |-> fr.state,
                            arg |-> state_for(fr.state, fr.desired),
                            prior |-> state_for(fr.state, fr.previous),
                            sticky |-> fr.sticky, callable |-> callable,
                            wrapped |-> FALSE]
          ELSE /\ TSStore(t, fr.state, set_state_by_index(TSLocal(t), fr.state, fr.previous))
               /\ ts_op' = [thread |-> t, kind |-> "return", state |-> fr.state,
                            arg |-> state_for(fr.state, fr.desired),
                            prior |-> state_for(fr.state, fr.previous),
                            sticky |-> fr.sticky, callable |-> callable,
                            wrapped |-> wrap_result(fr.sticky, callable)]
    /\ ts_stack' = [ts_stack EXCEPT ![t] = SubSeq(@, 1, Len(@) - 1)]
    /\ UNCHANGED notTS

TSNext ==
    \E t \in TSThreads :
        \/ \E s \in ThreadStates :
            \/ value_getter(t, s)
            \/ \E value \in TSWritten : value_setter(t, s, value)
            \/ \E desired \in TSIndexes(s) : ThreadStateContextEnter(t, s, desired)
            \/ \E desired \in TSIndexes(s), sticky \in BOOLEAN :
                   ThreadStateWrappedCall(t, s, desired, sticky)
        \/ ThreadStateContextExit(t)
        \/ \E callable \in BOOLEAN : ThreadStateWrappedReturn(t, callable)

\* The threads of the programs that use two descriptors.
TSPairThreads == {1}

\* Programs that read, write and select on two descriptors.
TSPairNext ==
    \E t \in TSPairThreads :
        \/ \E s \in TSDescriptors :
            \/ value_getter(t, s)
            \/ \E value \in TSWritten : value_setter(t, s, value)
            \/ \E desired \in TSIndexes(s) : ThreadStateContextEnter(t, s, desired)
        \/ ThreadStateContextExit(t)

-----------------------------------------------------------------------------
(***************************************************************************)
(* The frame-evaluation hook (frameeval.cpp): FrameEval_Install puts the   *)
(* trampoline `wrapper` in front of the interpreter's frame evaluator and  *)
(* keeps a FrameEval record in the interpreter's dictionary;               *)
(* FrameEval_Remove undoes it.  A call that goes through the trampoline is *)
(* a frame on its thread's stack: the hooks and the evaluated frame are    *)
(* Python code, during which the thread may make further calls, the GIL    *)
(* may change hands, and the hooks may be installed or removed.            *)
(***************************************************************************)

FEMaxInstalls == 2

FEMaxDepth == 2

FEThreads == {1}

FEHooks == {"on_call", "on_result", "on_error"}

\* The evaluators the interpreter may have had before anything was installed.
FEEvaluators == {"_PyEval_EvalFrameDefault", "other"}

NoEntry == [gen |-> 0, frame_eval |-> "NULL", hooks |-> {}]

FEInit ==
    /\ eval_frame \in FEEvaluators
    /\ fe_original = eval_frame
    /\ fe_entry = NoEntry
    /\ fe_installs = 0
    /\ fe_round = [installs |-> 0, removed |-> FALSE]
    /\ in_callback = [t \in FEThreads |-> FALSE]
    /\ fe_stack = [t \in FEThreads |-> <<>>]
    /\ fe_last = <<>>
    /\ fe_crashed = FALSE
    /\ current = [t \in FEThreads |-> [frame |-> 0, returned |-> FALSE]]
    /\ fe_read = <<>>

\* FrameEval_Remove as a function of the interpreter's evaluator and entry.
FERemoved(func, entry) ==
    IF entry # NoEntry
    THEN [eval_frame |-> entry.frame_eval, entry |-> NoEntry]
    ELSE [eval_frame |-> func, entry |-> entry]

\* An Install that does not remove what was installed before.
FEKept(func, entry) == [eval_frame |-> func, entry |-> entry]

\* The first statement of FrameEval_Install: FrameEval_Remove(is).
FEPrepared(func, entry) == FERemoved(func, entry)

FrameEval_Remove ==
    /\ ~fe_crashed
    /\ eval_frame' = FERemoved(eval_frame, fe_entry).eval_frame
    /\ fe_entry' = FERemoved(eval_frame, fe_entry).entry
    /\ fe_round' = [fe_round EXCEPT !.removed = TRUE]
    /\ UNCHANGED <<fe_original, fe_installs, in_callback, fe_stack, fe_last, fe_crashed>>
    /\ UNCHANGED <<current, fe_read>>
    /\ UNCHANGED notFE

FrameEval_Install(hooks) ==
    /\ ~fe_crashed
    /\ fe_installs < FEMaxInstalls
    /\ LET before == FEPrepared(eval_frame, fe_entry)
       IN fe_entry' = [gen |-> fe_installs + 1,
                       frame_eval |-> before.eval_frame,
                       hooks |-> hooks]
    /\ eval_frame' = "wrapper"
    /\ fe_installs' = fe_installs + 1
    /\ fe_round' = [installs |-> IF fe_round.removed THEN 1 ELSE fe_round.installs + 1,
                    removed |-> FALSE]
    /\ UNCHANGED <<fe_original, in_callback, fe_stack, fe_last, fe_crashed>>
    /\ UNCHANGED <<current, fe_read>>
    /\ UNCHANGED notFE

FETop(t) == fe_stack[t][Len(fe_stack[t])]

FEPopped(t) == [fe_stack EXCEPT ![t] = SubSeq(@, 1, Len(@) - 1)]

FEChanged(t, fr) == [fe_stack EXCEPT ![t] = [@ EXCEPT ![Len(@)] = fr]]

\* The calls in progress in all threads together.
RECURSIVE FEOpenIn(_)
FEOpenIn(T) ==
    IF T = {} THEN 0
    ELSE LET t == CHOOSE u \in T : TRUE IN Len(fe_stack[t]) + FEOpenIn(T \ {t})

FEOpen == FEOpenIn(FEThreads)

\* The local variables of one activation of wrapper, and what it has done.
FEFrame(pc, gen, on_call, by) ==
    [pc |-> pc, gen |-> gen, on_call |-> on_call, context |-> "None", by |-> by,
     outcome |-> "none", called |-> {}, hook_context |-> "none", hook_saw |-> "none"]

\* The context a succeeding on_call returns for the call at this depth of t.
FEContext(t) == <<t, Len(fe_stack[t])>>

\* The record `eval` points to was freed while the call was in progress.
FEStale(fr) == fe_entry.gen # fr.gen

\* What reading eval->frame_eval can give: the record's saved evaluator;
\* after the record was freed, whatever the memory holds.
FEEvaluatorRead(fr) == IF FEStale(fr) THEN "freed" ELSE fe_entry.frame_eval

\* What reading eval->on_call / on_result / on_error can give: the record's
\* hooks; after the record was freed, cleared handles, or the handles of a
\* record allocated in its place.
FEHooksRead(fr) == IF FEStale(fr) THEN {{}, fe_entry.hooks} ELSE {fe_entry.hooks}

\* The hook wrapper calls for an outcome of the frame.
FEHookAlwaysResult(outcome) == "on_result"

FEHookFor(outcome) == IF outcome = "value" THEN "on_result" ELSE "on_error"

\* The thread's CurrentFrame object (find_current_frame) across a step of
\* wrapper: current->frame is set to the frame handed to on_call and is never
\* reset; frame is the index of that activation, 0 for nullptr, -1 once the
\* activation is gone; returned tells that a call whose on_call was given the
\* object has returned.
CurrentFrameFollows(t) ==
    LET n == Len(fe_stack[t])
    IN current' = [current EXCEPT ![t] =
           IF Len(fe_stack'[t]) > n
           THEN IF fe_stack'[t][n + 1].pc = "on_call"
                THEN [@ EXCEPT !.frame = n + 1]
                ELSE @
           ELSE IF Len(fe_stack'[t]) < n
           THEN [frame |-> IF @.frame = n THEN -1 ELSE @.frame,
                 returned |-> @.returned \/ fe_stack[t][n].on_call \in {"returned", "raised"}]
           ELSE @]

\* A call reaches the trampoline.
wrapper(t, throw_flag) ==
    /\ ~fe_crashed
    /\ eval_frame = "wrapper"
    /\ FEOpen < FEMaxDepth
    /\ IF in_callback[t] \/ throw_flag
       THEN /\ fe_stack' = [fe_stack EXCEPT ![t] =
                   Append(@, FEFrame("bypass", fe_entry.gen, "skipped", fe_entry.frame_eval))]
            /\ UNCHANGED in_callback
       ELSE IF "on_call" \in fe_entry.hooks
       THEN /\ fe_stack' = [fe_stack EXCEPT ![t] =
                   Append(@, FEFrame("on_call", fe_entry.gen, "running", "none"))]
            /\ in_callback' = [in_callback EXCEPT ![t] = TRUE]
       ELSE /\ fe_stack' = [fe_stack EXCEPT ![t] =
                   Append(@, FEFrame("frame_eval", fe_entry.gen, "unset", fe_entry.frame_eval))]
            /\ in_callback' = [in_callback EXCEPT ![t] = FALSE]
    /\ UNCHANGED <<eval_frame, fe_original, fe_entry, fe_installs, fe_round, fe_last, fe_crashed>>
    /\ CurrentFrameFollows(t)
    /\ UNCHANGED fe_read
    /\ UNCHANGED notFE

\* Where wrapper goes when on_call returned: on to the frame, or to the
\* fallback when on_call raised.
FEAfterOnCallAlways(ok) == "frame_eval"

FEAfterOnCall(ok) == IF ok THEN "frame_eval" ELSE "fallback"

\* on_call returns a context or raises.
FEOnCallDone(t, ok) ==
    /\ ~fe_crashed
    /\ fe_stack[t] # <<>> /\ FETop(t).pc = "on_call"
    /\ \/ /\ fe_stack' = FEChanged(t, [FETop(t) EXCEPT
                   !.pc = FEAfterOnCall(ok),
                   !.on_call = IF ok THEN "returned" ELSE "raised",
                   !.context = IF ok THEN FEContext(t) ELSE "NULL",
                   !.by = FEEvaluatorRead(FETop(t))])
          \* the fallback runs the frame with in_callback still set
          /\ in_callback' = [in_callback EXCEPT ![t] = (FEAfterOnCall(ok) = "fallback")]
          /\ UNCHANGED fe_crashed
       \/ \* eval->frame_eval is read from a freed record and called
          /\ FEStale(FETop(t))
          /\ fe_crashed' = TRUE
          /\ UNCHANGED <<in_callback, fe_stack>>
    /\ UNCHANGED <<eval_frame, fe_original, fe_entry, fe_installs, fe_round, fe_last>>
    /\ CurrentFrameFollows(t)
    /\ UNCHANGED fe_read
    /\ UNCHANGED notFE

\* What is known of a call when wrapper returns to its caller.
FEReturned(t, fr, observed) ==
    [thread |-> t, on_call |-> fr.on_call, context |-> fr.context,
     by |-> fr.by, outcome |-> fr.outcome, called |-> fr.called,
     hook_context |-> fr.hook_context,
     hook_saw |-> fr.hook_saw, observed |-> observed,
     hooks |-> IF FEStale(fr) THEN {} ELSE fe_entry.hooks,
     stale |-> FEStale(fr)]

\* The saved evaluator has run the frame to its end: a value or an exception.
FEFrameDone(t, outcome) ==
    /\ ~fe_crashed
    /\ fe_stack[t] # <<>> /\ FETop(t).pc \in {"frame_eval", "fallback", "bypass"}
    /\ LET fr == [FETop(t) EXCEPT !.outcome = outcome]
       IN CASE fr.pc = "bypass" ->
                 /\ fe_stack' = FEPopped(t)
                 /\ fe_last' = FEReturned(t, fr, outcome)
                 /\ UNCHANGED <<in_callback, fe_crashed>>
            [] fr.pc = "fallback" ->
                 /\ fe_stack' = FEPopped(t)
                 /\ fe_last' = FEReturned(t, fr, outcome)
                 /\ in_callback' = [in_callback EXCEPT ![t] = FALSE]
                 /\ UNCHANGED fe_crashed
            [] fr.pc = "frame_eval" ->
                 \/ \E hooks \in FEHooksRead(fr) :
                        IF FEHookFor(outcome) \in hooks
                        THEN /\ fe_stack' = FEChanged(t, [fr EXCEPT
                                    !.pc = FEHookFor(outcome),
                                    !.called = @ \cup {FEHookFor(outcome)},
                                    !.hook_context = fr.context,
                                    !.hook_saw = outcome])
                             /\ in_callback' = [in_callback EXCEPT ![t] = TRUE]
                             /\ UNCHANGED <<fe_last, fe_crashed>>
                        ELSE /\ fe_stack' = FEPopped(t)
                             /\ fe_last' = FEReturned(t, fr, outcome)
                             /\ in_callback' = [in_callback EXCEPT ![t] = FALSE]
                             /\ UNCHANGED fe_crashed
                 \/ /\ FEStale(fr)
                    /\ fe_crashed' = TRUE
                    /\ UNCHANGED <<in_callback, fe_stack, fe_last>>
    /\ UNCHANGED <<eval_frame, fe_original, fe_entry, fe_installs, fe_round>>
    /\ CurrentFrameFollows(t)
    /\ UNCHANGED fe_read
    /\ UNCHANGED notFE

\* on_result or on_error returns or raises.
FEHookDone(t, ok) ==
    /\ ~fe_crashed
    /\ fe_stack[t] # <<>> /\ FETop(t).pc \in {"on_result", "on_error"}
    /\ LET fr == FETop(t)
       IN /\ fe_last' = FEReturned(t, fr, IF ok THEN fr.outcome ELSE "hook exception")
          /\ in_callback' = [in_callback EXCEPT ![t] = (fr.pc = "on_result" /\ ~ok)]
    /\ fe_stack' = FEPopped(t)
    /\ UNCHANGED <<eval_frame, fe_original, fe_entry, fe_installs, fe_round, fe_crashed>>
    /\ CurrentFrameFollows(t)
    /\ UNCHANGED fe_read
    /\ UNCHANGED notFE

\* A hook that kept the CurrentFrame object it was given reads function,
\* locals or globals on it: the getters dereference current->frame as it is.
CurrentFrameGetter(t) ==
    /\ ~fe_crashed
    /\ current[t].frame # 0
    /\ IF current[t].frame > 0
       THEN /\ fe_read' = [thread |-> t, returned |-> current[t].returned,
                           result |-> "data", frame |-> current[t].frame]
            /\ UNCHANGED fe_crashed
       ELSE \* the activation record is gone: a dangling pointer is read
            \/ /\ fe_read' = [thread |-> t, returned |-> current[t].returned,
                               result |-> "garbage", frame |-> -1]
               /\ UNCHANGED fe_crashed
            \/ /\ fe_crashed' = TRUE
               /\ UNCHANGED fe_read
    /\ UNCHANGED <<eval_frame, fe_original, fe_entry, fe_installs, fe_round,
                   in_callback, fe_stack, fe_last, current>>
    /\ UNCHANGED notFE

FENext ==
    \/ FrameEval_Remove
    \/ \E hooks \in SUBSET FEHooks : FrameEval_Install(hooks)
    \/ \E t \in FEThreads :
        \/ \E throw_flag \in BOOLEAN : wrapper(t, throw_flag)
        \/ \E ok \in BOOLEAN : FEOnCallDone(t, ok)
        \/ \E outcome \in {"value", "exception"} : FEFrameDone(t, outcome)
        \/ \E ok \in BOOLEAN : FEHookDone(t, ok)

CFNext ==
    \/ FENext
    \/ \E t \in FEThreads : CurrentFrameGetter(t)

-----------------------------------------------------------------------------
(***************************************************************************)
(* Stack and StackFactory (stack.cpp).  A thread's interpreter frames are  *)
(* a sequence, oldest first; Stack nodes live in a heap and are named by   *)
(* their address in it (0 is nullptr), so that node identity is            *)
(* observable; the factory's per-thread cache holds the latest snapshot.   *)
(* A node lives while the cache, the consumer of the delta() results or    *)
(* the program (which keeps the operands of its latest operation) can      *)
(* reach it.  Addresses carry no meaning beyond identity: after every step *)
(* the live nodes are renamed 1, 2, ... in a fixed order, so that states   *)
(* differing only in the addresses are one state.                          *)
(***************************************************************************)

StackMaxDepth == 2

StackMaxInstr == 1

StackFuncs == {"f", "g"}

\* The functions a program puts into and takes out of factory.exclude.
StackExcludable == {"g"}

NoStack == 0

\* Room for two snapshots that share nothing and a third one being built.
StackAddresses == 1 .. 3 * StackMaxDepth

StackFree == [func |-> "free", instruction |-> 0, index |-> 0, next |-> NoStack]

StackNoOp == [kind |-> "none", prev |-> NoStack, new |-> NoStack, pop |-> 0, frames |-> <<>>]

StackInit ==
    /\ py_frames = <<>>
    /\ exclude = {}
    /\ sf_heap = [a \in StackAddresses |-> StackFree]
    /\ sf_cached = NoStack
    /\ sf_op = StackNoOp
    /\ sf_replay = <<>>
    /\ sf_pure = TRUE

is_included(func, ex) == func \notin ex

RECURSIVE count_included_frames(_, _)
count_included_frames(i, ex) ==
    IF i = 0 THEN 0
    ELSE (IF is_included(py_frames[i].func, ex) THEN 1 ELSE 0)
             + count_included_frames(i - 1, ex)

\* Stack::create: a new node at the lowest free address; index is a uint16_t.
StackCreate(func, instruction, idx, next, heap) ==
    LET node == CHOOSE a \in StackAddresses :
                    /\ heap[a] = StackFree
                    /\ \A b \in StackAddresses : heap[b] = StackFree => a <= b
    IN [node |-> node,
        heap |-> [heap EXCEPT ![node] = [func |-> func, instruction |-> instruction,
                                         index |-> idx % 65536, next |-> next]]]

\* The nodes of a chain, head first.
RECURSIVE StackChain(_, _)
StackChain(heap, stack) ==
    IF stack = NoStack THEN <<>> ELSE <<stack>> \o StackChain(heap, heap[stack].next)

StackNodes(heap, stack) == {StackChain(heap, stack)[i] : i \in DOMAIN StackChain(heap, stack)}

RECURSIVE StackReversed(_)
StackReversed(q) ==
    IF q = <<>> THEN <<>> ELSE Append(StackReversed(SubSeq(q, 2, Len(q))), q[1])

\* q followed by the elements of r that q does not have.
RECURSIVE StackJoined(_, _)
StackJoined(q, r) ==
    IF r = <<>> THEN q
    ELSE StackJoined(IF \E i \in DOMAIN q : q[i] = r[1] THEN q ELSE Append(q, r[1]),
                     SubSeq(r, 2, Len(r)))

\* The nodes the roots reach, each once, every chain oldest node first.
RECURSIVE StackListed(_, _)
StackListed(heap, roots) ==
    IF roots = <<>> THEN <<>>
    ELSE StackJoined(StackListed(heap, SubSeq(roots, 1, Len(roots) - 1)),
                     StackReversed(StackChain(heap, roots[Len(roots)])))

StackPosition(order, node) ==
    IF node = NoStack THEN NoStack ELSE CHOOSE i \in DOMAIN order : order[i] = node

\* tp_dealloc and renaming: what heap, cache, latest operation and replayed
\* stack are once the nodes nobody reaches are freed.
StackSettled(heap, cached, op, replay) ==
    LET order == StackListed(heap, <<cached>> \o replay \o <<op.prev, op.new>>)
    IN [heap |-> [a \in StackAddresses |->
                     IF a <= Len(order)
                     THEN [heap[order[a]] EXCEPT !.next = StackPosition(order, @)]
                     ELSE StackFree],
        cached |-> StackPosition(order, cached),
        op |-> [op EXCEPT !.prev = StackPosition(order, @),
                          !.new = StackPosition(order, @),
                          !.frames = [i \in DOMAIN @ |-> StackPosition(order, @[i])]],
        replay |-> [i \in DOMAIN replay |-> StackPosition(order, replay[i])]]

sq_length(heap, stack) == heap[stack].index + 1

RECURSIVE drop(_, _, _)
drop(heap, stack, n) ==
    IF stack # NoStack /\ n > 0 THEN drop(heap, heap[stack].next, n - 1) ELSE stack

\* A snapshot that never takes a node of the cached one.
StackNeverReuse(heap, reuse, rest, fr) == FALSE

\* The test of create_from_frame for taking the node reuse as it is: same
\* next node object, same function, same instruction offset.
can_reuse(heap, reuse, rest, fr) ==
    /\ heap[reuse].next = rest
    /\ heap[reuse].func = fr.func
    /\ heap[reuse].instruction = fr.instr

\* Stack::create_from_frame(exclude, frame, index, reuse): frame is a position
\* in py_frames (0 for no frame), the result is the node and the heap.
RECURSIVE create_from_frame(_, _, _, _, _)
create_from_frame(ex, frame, idx, reuse, heap) ==
    IF frame = 0 THEN [node |-> NoStack, heap |-> heap]
    ELSE IF is_included(py_frames[frame].func, ex)
    THEN IF reuse # NoStack /\ idx = heap[reuse].index
         THEN LET rest == create_from_frame(ex, frame - 1, idx - 1, heap[reuse].next, heap)
              IN IF can_reuse(heap, reuse, rest.node, py_frames[frame])
                 THEN [node |-> reuse, heap |-> rest.heap]
                 ELSE StackCreate(py_frames[frame].func, py_frames[frame].instr,
                                  idx, rest.node, rest.heap)
         ELSE LET rest == create_from_frame(ex, frame - 1, idx - 1, reuse, heap)
              IN StackCreate(py_frames[frame].func, py_frames[frame].instr,
                             idx, rest.node, rest.heap)
    ELSE create_from_frame(ex, frame - 1, idx, reuse, heap)

\* Stack::create_from_frame(exclude, frame, reuse) from the top frame.
StackSnapshot(ex, reuse, heap) ==
    LET count == count_included_frames(Len(py_frames), ex)
        aligned == IF reuse # NoStack /\ sq_length(heap, reuse) > count
                   THEN drop(heap, reuse, sq_length(heap, reuse) - count)
                   ELSE reuse
    IN create_from_frame(ex, Len(py_frames), count - 1, aligned, heap)

\* The loop "walk together until they meet" of Stack::changes_from: how many
\* steps it takes from p_self and p_other.
RECURSIVE StackWalk(_, _, _)
StackWalk(heap, p_self, p_other) ==
    IF p_self = p_other THEN 0
    ELSE 1 + StackWalk(heap, heap[p_self].next,
                       IF p_other # NoStack THEN heap[p_other].next ELSE NoStack)

\* The first n nodes of a chain, head first.
RECURSIVE StackPrefix(_, _, _)
StackPrefix(heap, stack, n) ==
    IF n = 0 THEN <<>> ELSE <<stack>> \o StackPrefix(heap, heap[stack].next, n - 1)

\* A to_remove that forgets the nodes skipped while aligning the depths.
StackToRemoveWalked(skipped, walked) == walked

StackToRemove(skipped, walked) == skipped + walked

\* Stack::changes_from(self, other): (to_remove, add_tuple).
changes_from(heap, self, other) ==
    IF self = other THEN [pop |-> 0, frames |-> <<>>]
    ELSE LET len_self == sq_length(heap, self)
             len_other == IF other # NoStack THEN sq_length(heap, other) ELSE 0
             skip_self == IF len_self > len_other THEN len_self - len_other ELSE 0
             skip_other == IF len_other > len_self THEN len_other - len_self ELSE 0
             walked == StackWalk(heap, drop(heap, self, skip_self),
                                 drop(heap, other, skip_other))
         IN [pop |-> StackToRemove(skip_other, walked),
             frames |-> StackPrefix(heap, self, skip_self + walked)]

\* The interpreter calls a function, returns from one, or moves on in one;
\* the program lets go of the snapshots it held.
StackMoved ==
    LET now == StackSettled(sf_heap, sf_cached, StackNoOp, sf_replay)
    IN /\ sf_heap' = now.heap
       /\ sf_cached' = now.cached
       /\ sf_op' = now.op
       /\ sf_replay' = now.replay
       /\ UNCHANGED sf_pure
       /\ UNCHANGED notStack

StackPush(func) ==
    /\ Len(py_frames) < StackMaxDepth
    /\ py_frames' = Append(py_frames, [func |-> func, instr |-> 0])
    /\ UNCHANGED exclude
    /\ StackMoved

StackPop ==
    /\ py_frames # <<>>
    /\ py_frames' = SubSeq(py_frames, 1, Len(py_frames) - 1)
    /\ UNCHANGED exclude
    /\ StackMoved

StackStep ==
    /\ py_frames # <<>>
    /\ py_frames[Len(py_frames)].instr < StackMaxInstr
    /\ py_frames' = [py_frames EXCEPT ![Len(py_frames)].instr = @ + 1]
    /\ UNCHANGED exclude
    /\ StackMoved

\* factory.exclude.add(func) / factory.exclude.discard(func)
StackExclude(func) ==
    /\ exclude' = IF func \in exclude THEN exclude \ {func} ELSE exclude \cup {func}
    /\ UNCHANGED py_frames
    /\ StackMoved

set_cached_stack(stack) == stack

\* StackFactory::tp_call: factory()
StackFactoryCall ==
    LET made == StackSnapshot(exclude, sf_cached, sf_heap)
        now == StackSettled(made.heap, set_cached_stack(made.node),
                            [StackNoOp EXCEPT !.kind = "call", !.prev = sf_cached,
                                              !.new = made.node],
                            <<>>)
    IN /\ sf_heap' = now.heap
       /\ sf_cached' = now.cached
       /\ sf_op' = now.op
       /\ sf_replay' = now.replay
       /\ sf_pure' = FALSE
       /\ UNCHANGED <<py_frames, exclude>>
       /\ UNCHANGED notStack

\* What a consumer of delta() results holds after one more result.
StackApplied(replay, pop, frames) == frames \o SubSeq(replay, pop + 1, Len(replay))

\* A delta() that reports nothing to pop when the stack has become empty.
StackDeltaEmptyNoPop(heap, cached) == [pop |-> 0, frames |-> <<>>]

\* StackFactory::delta when no included frame is left.
StackDeltaEmpty(heap, cached) ==
    [pop |-> IF cached # NoStack THEN sq_length(heap, cached) ELSE 0, frames |-> <<>>]

\* StackFactory::delta
StackFactoryDelta ==
    LET made == StackSnapshot(exclude, sf_cached, sf_heap)
        result == IF made.node = NoStack
                  THEN StackDeltaEmpty(sf_heap, sf_cached)
                  ELSE changes_from(made.heap, made.node, sf_cached)
        now == StackSettled(made.heap, set_cached_stack(made.node),
                            [kind |-> "delta", prev |-> sf_cached, new |-> made.node,
                             pop |-> result.pop, frames |-> result.frames],
                            IF sf_pure
                            THEN StackApplied(sf_replay, result.pop, result.frames)
                            ELSE <<>>)
    IN /\ sf_heap' = now.heap
       /\ sf_cached' = now.cached
       /\ sf_op' = now.op
       /\ sf_replay' = now.replay
       /\ UNCHANGED <<py_frames, exclude, sf_pure>>
       /\ UNCHANGED notStack

\* The snapshots the program still holds: the operands of its latest operation.
StackHeld == {sf_op.prev, sf_op.new} \ {NoStack}

\* self.changes_from(other) on two Stacks the program holds, or on None.
StackChangesFrom(self, other) ==
    /\ sf_op' = [kind |-> "changes_from", prev |-> other, new |-> self,
                 pop |-> changes_from(sf_heap, self, other).pop,
                 frames |-> changes_from(sf_heap, self, other).frames]
    /\ UNCHANGED <<py_frames, exclude, sf_heap, sf_cached, sf_replay, sf_pure>>
    /\ UNCHANGED notStack

StackNext ==
    \/ \E func \in StackFuncs : StackPush(func)
    \/ StackPop
    \/ StackStep
    \/ \E func \in StackExcludable : StackExclude(func)
    \/ StackFactoryCall
    \/ StackFactoryDelta
    \/ \E self \in StackHeld, other \in StackHeld \cup {NoStack} :
           StackChangesFrom(self, other)

\* ---------------------------------------------------------------------------
\* StableSet (src/src/wrappedmember.cpp): a set with an order log.  The hash
\* table of the base set finds keys by value and keeps the object that was
\* added first; the order log keeps the addresses of the keys the operations
\* were called with, an odd address being a tombstone.
\* ---------------------------------------------------------------------------

\* How many entries more than the set has elements the order log grows to.
SSMaxExcess == 2

\* How many elements the iterable has that a set is constructed from.
SSPreload == 7

\* The objects the caller adds and removes: 1 and 2 are equal and distinct,
\* 3 is equal to nothing else.
SSObjects == 1 .. 3

\* The objects of the iterable a set is constructed from, in its order.
SSIterable == [i \in 1 .. SSPreload |-> 3 + i]

SSAllObjects == SSObjects \cup {SSIterable[i] : i \in DOMAIN SSIterable}

\* The value an object hashes and compares by.
SSValue(o) == IF o <= 2 THEN 1 ELSE o

SSValues == {SSValue(o) : o \in SSAllObjects}

\* (uintptr_t)key: object addresses are even.
SSAddress(o) == 2 * o

\* The object at an address of the order log.
SSObject(obj) == obj \div 2

\* order.size() < 8 in StableSet::discard.
SSSmall == 8

SSNoOp == [kind |-> "none", key |-> 0, result |-> "none", yielded |-> <<>>,
           order |-> <<>>, used |-> 0, dropped |-> 0]

StableSetInit ==
    /\ ss_set = [v \in SSValues |-> 0]
    /\ ss_order = <<>>
    /\ ss_refs = SSObjects
    /\ ss_live = <<>>
    /\ ss_op = SSNoOp
    /\ ss_crashed = FALSE

is_delete(obj) == obj % 2 = 1

remove_delete_flag(obj) == obj - 1

add_delete_flag(obj) == obj + 1

\* clean(order) from position i down to the first entry, with the deletes
\* seen so far.
RECURSIVE SSCleanFrom(_, _, _)
SSCleanFrom(order, i, deletes) ==
    IF i = 0 THEN order
    ELSE IF is_delete(order[i])
    THEN SSCleanFrom([order EXCEPT ![i] = 0], i - 1,
                     deletes \cup {remove_delete_flag(order[i])})
    ELSE IF order[i] \in deletes
    THEN SSCleanFrom([order EXCEPT ![i] = 0], i - 1, deletes \ {order[i]})
    ELSE SSCleanFrom(order, i - 1, deletes)

clean(order) == SSCleanFrom(order, Len(order), {})

remove_value(container, value) == SelectSeq(container, LAMBDA e : e # value)

\* remove_deletes(order), the free function.
remove_deletes(order) == remove_value(clean(order), 0)

\* remove_first(vec, value).
RECURSIVE remove_first(_, _)
remove_first(vec, value) ==
    IF vec = <<>> THEN <<>>
    ELSE IF Head(vec) = value THEN Tail(vec)
    ELSE <<Head(vec)>> \o remove_first(Tail(vec), value)

\* PySet_GET_SIZE.
SSSize(set) == Cardinality({v \in SSValues : set[v] # 0})

\* StableSet::remove_deletes(), the member: only when the log is longer than
\* the set.
SSCompacted(order, set) ==
    IF Len(order) > SSSize(set) THEN remove_deletes(order) ELSE order

\* PySet_Add: an equal key already in the table stays.
PySet_Add(set, key) ==
    IF set[SSValue(key)] # 0 THEN set ELSE [set EXCEPT ![SSValue(key)] = SSAddress(key)]

\* An add that logs the key whether or not the set grew.
SSGrewAlways(before, after) == TRUE

\* size() != before in StableSet::add.
SSGrew(before, after) == after # before

\* StableSet::add(key) on a set and its log: the set and the log afterwards.
add(set, order, key) ==
    LET compact == IF Len(order) * 2 > SSSize(set) THEN remove_deletes(order) ELSE order
        after == PySet_Add(set, key)
    IN [set |-> after,
        order |-> IF SSGrew(SSSize(set), SSSize(after))
                  THEN Append(compact, SSAddress(key)) ELSE compact]

\* StableSet::discard(key): status, set and log.
discard(set, order, key) ==
    IF set[SSValue(key)] = 0 THEN [status |-> 0, set |-> set, order |-> order]
    ELSE LET after == [set EXCEPT ![SSValue(key)] = 0]
         IN [status |-> 1, set |-> after,
             order |-> IF Len(order) < SSSmall /\ Len(order) = SSSize(after) + 1
                       THEN remove_first(order, SSAddress(key))
                       ELSE Append(order, add_delete_flag(SSAddress(key)))]

\* The objects whose memory has been given back: no reference from the
\* caller and none from the hash table.
SSFreed == {o \in SSAllObjects : o \notin ss_refs /\ \A v \in SSValues : ss_set[v] # SSAddress(o)}

\* The log entries that are addresses of freed objects.
SSDangling(order) == {i \in DOMAIN order : ~is_delete(order[i]) /\ SSObject(order[i]) \in SSFreed}

\* The list of elements without the one of a value.
SSWithout(live, value) == SelectSeq(live, LAMBDA e : SSValue(SSObject(e)) # value)

\* StableSet::add_all(coll): add every key of the collection in its order.
RECURSIVE add_all(_, _, _)
add_all(set, order, coll) ==
    IF coll = <<>> THEN [set |-> set, order |-> order]
    ELSE LET r == add(set, order, Head(coll))
         IN add_all(r.set, r.order, Tail(coll))

\* StableSet::init with an iterable: the set is constructed from it; the
\* caller keeps no reference to the elements.
StableSetConstruct ==
    /\ ~ss_crashed
    /\ ss_op = SSNoOp /\ ss_refs = SSObjects
    /\ LET r == add_all(ss_set, ss_order, SSIterable)
       IN /\ ss_set' = r.set
          /\ ss_order' = r.order
          /\ ss_live' = [i \in DOMAIN SSIterable |-> SSAddress(SSIterable[i])]
          /\ ss_op' = [SSNoOp EXCEPT !.kind = "init"]
    /\ UNCHANGED <<ss_refs, ss_crashed>>
    /\ UNCHANGED notSS

\* set.add(key) from Python.
StableSetAdd(o) ==
    /\ ~ss_crashed
    /\ o \in ss_refs
    /\ Len(ss_order) - SSSize(ss_set) < SSMaxExcess
    /\ LET r == add(ss_set, ss_order, o)
       IN /\ ss_set' = r.set
          /\ ss_order' = r.order
          /\ ss_live' = IF ss_set[SSValue(o)] = 0
                        THEN Append(ss_live, SSAddress(o)) ELSE ss_live
          /\ ss_op' = [SSNoOp EXCEPT !.kind = "add", !.key = o]
    /\ UNCHANGED <<ss_refs, ss_crashed>>
    /\ UNCHANGED notSS

\* set.remove(key) and set.discard(key) from Python: both are discard(key).
StableSetRemove(o) ==
    /\ ~ss_crashed
    /\ o \in ss_refs
    /\ Len(ss_order) - SSSize(ss_set) < SSMaxExcess
    /\ LET r == discard(ss_set, ss_order, o)
       IN /\ ss_set' = r.set
          /\ ss_order' = r.order
          /\ ss_live' = IF r.status = 1 THEN SSWithout(ss_live, SSValue(o)) ELSE ss_live
          /\ ss_op' = [SSNoOp EXCEPT !.kind = "remove", !.key = o,
                                     !.result = IF r.status = 1 THEN "removed" ELSE "absent"]
    /\ UNCHANGED <<ss_refs, ss_crashed>>
    /\ UNCHANGED notSS

\* StableSet::pop() on a non-empty set whose log is not empty: the log after
\* the tombstones at its end are dealt with, or <<>> when the call never
\* returns.
SSPopLog(order, set) ==
    IF ~is_delete(order[Len(order)]) THEN order
    ELSE LET compact == SSCompacted(order, set)
         IN IF compact # <<>> /\ ~is_delete(compact[Len(compact)]) THEN compact ELSE <<>>

\* set.pop() from Python.
StableSetPop ==
    /\ ~ss_crashed
    /\ IF SSSize(ss_set) = 0
       THEN /\ ss_op' = [SSNoOp EXCEPT !.kind = "pop", !.result = "KeyError"]
            /\ UNCHANGED <<ss_set, ss_order, ss_refs, ss_live, ss_crashed>>
       ELSE IF ss_order = <<>> \/ SSPopLog(ss_order, ss_set) = <<>>
       THEN /\ ss_crashed' = TRUE
            /\ ss_op' = [SSNoOp EXCEPT !.kind = "pop", !.result = "crash"]
            /\ UNCHANGED <<ss_set, ss_order, ss_refs, ss_live>>
       ELSE LET log == SSPopLog(ss_order, ss_set)
                last_added == log[Len(log)]
                value == SSValue(SSObject(last_added))
            IN \/ /\ Len(log) \in SSDangling(log)
                  /\ ss_crashed' = TRUE
                  /\ ss_op' = [SSNoOp EXCEPT !.kind = "pop", !.result = "crash"]
                  /\ UNCHANGED <<ss_set, ss_order, ss_refs, ss_live>>
               \/ /\ ss_set[value] # 0
                  /\ ss_set' = [ss_set EXCEPT ![value] = 0]
                  /\ ss_order' = SubSeq(log, 1, Len(log) - 1)
                  /\ ss_refs' = ss_refs \cup ({SSObject(last_added)} \cap SSObjects)
                  /\ ss_live' = SSWithout(ss_live, value)
                  /\ ss_op' = [SSNoOp EXCEPT !.kind = "pop", !.key = SSObject(last_added),
                                             !.result = "popped"]
                  /\ UNCHANGED ss_crashed
               \/ /\ ss_set[value] = 0
                  /\ ss_order' = log
                  /\ ss_refs' = ss_refs \cup ({SSObject(last_added)} \cap SSObjects)
                  /\ ss_op' = [SSNoOp EXCEPT !.kind = "pop", !.result = "SystemError"]
                  /\ UNCHANGED <<ss_set, ss_live, ss_crashed>>
    /\ UNCHANGED notSS

\* iter(set) run to its end: compaction by the member remove_deletes, then
\* every entry of the log is handed out.
StableSetIter ==
    /\ ~ss_crashed
    /\ LET log == SSCompacted(ss_order, ss_set)
       IN \/ /\ SSDangling(log) # {}
             /\ ss_crashed' = TRUE
             /\ ss_order' = log
             /\ ss_op' = [SSNoOp EXCEPT !.kind = "iter", !.result = "crash"]
          \/ /\ ss_order' = log
             /\ ss_op' = [SSNoOp EXCEPT !.kind = "iter", !.result = "done", !.yielded = log]
             /\ UNCHANGED ss_crashed
    /\ UNCHANGED <<ss_set, ss_refs, ss_live>>
    /\ UNCHANGED notSS

\* The loop of StableSet::copy: add every entry of the log to the new set.
RECURSIVE SSCopied(_, _)
SSCopied(log, acc) ==
    IF log = <<>> THEN acc
    ELSE SSCopied(Tail(log), add(acc.set, acc.order, SSObject(Head(log))))

\* set.copy() from Python; the copy is dropped after it has been looked at.
StableSetCopy ==
    /\ ~ss_crashed
    /\ LET log == remove_deletes(ss_order)
           made == SSCopied(log, [set |-> [v \in SSValues |-> 0], order |-> <<>>])
       IN \/ /\ SSDangling(log) # {}
             /\ ss_crashed' = TRUE
             /\ ss_order' = log
             /\ ss_op' = [SSNoOp EXCEPT !.kind = "copy", !.result = "crash"]
          \/ /\ ss_order' = log
             /\ ss_op' = [SSNoOp EXCEPT !.kind = "copy", !.result = "done",
                                        !.order = made.order, !.used = SSSize(made.set),
                                        !.dropped = Len(ss_order) - Len(log)]
             /\ UNCHANGED ss_crashed
    /\ UNCHANGED <<ss_set, ss_refs, ss_live>>
    /\ UNCHANGED notSS

\* The collections symmetric_difference_update is called with: one object,
\* or two different ones.
SSCollections ==
    {<<o>> : o \in SSObjects}
        \cup {<<c[1], c[2]>> : c \in {d \in SSObjects \X SSObjects : d[1] # d[2]}}

\* contains(obj): PySet_Contains, by value.
SSContains(set, o) == set[SSValue(o)] # 0

\* The loop of elements_removed over the log: what it leaves of an entry.
elements_removed_entry(set, obj) == IF SSContains(set, SSObject(obj)) THEN 0 ELSE obj

\* StableSet::elements_removed() on the log, the set being what it is after
\* the removals.
elements_removed(set, order) ==
    LET log == remove_deletes(order)
    IN clean([i \in DOMAIN log |-> elements_removed_entry(set, log[i])])

\* The loop of remove_all: PySet_Discard of every object.
RECURSIVE SSDiscardAll(_, _)
SSDiscardAll(set, coll) ==
    IF coll = <<>> THEN set
    ELSE SSDiscardAll([set EXCEPT ![SSValue(Head(coll))] = 0], Tail(coll))

\* StableSet::remove_all(coll).
remove_all(set, order, coll) ==
    LET after == SSDiscardAll(set, coll)
    IN [set |-> after, order |-> elements_removed(after, order)]

\* StableSet::symmetric_difference_update(coll): the objects of coll are
\* sorted into shared and extra, the shared are removed and the extra added.
symmetric_difference_update(set, order, coll) ==
    LET extra == SelectSeq(coll, LAMBDA o : ~SSContains(set, o))
        shared == SelectSeq(coll, LAMBDA o : SSContains(set, o))
        removed == remove_all(set, order, shared)
    IN add_all(removed.set, removed.order, extra)

\* The list of elements after the elements with a value of coll are gone
\* and the objects of extra have been added at the end.
RECURSIVE SSLiveWithout(_, _)
SSLiveWithout(live, coll) ==
    IF coll = <<>> THEN live
    ELSE SSLiveWithout(SSWithout(live, SSValue(Head(coll))), Tail(coll))

RECURSIVE SSLiveWith(_, _)
SSLiveWith(live, coll) ==
    IF coll = <<>> THEN live
    ELSE SSLiveWith(IF \E i \in DOMAIN live : SSValue(SSObject(live[i])) = SSValue(Head(coll))
                    THEN live ELSE Append(live, SSAddress(Head(coll))),
                    Tail(coll))

\* set.symmetric_difference_update(coll) and set ^= coll from Python.
\* elements_removed calls contains on every entry of the compacted log, which
\* reads the object at that address.
StableSetSymmetricDifferenceUpdate(coll) ==
    /\ ~ss_crashed
    /\ \A i \in DOMAIN coll : coll[i] \in ss_refs
    /\ Len(ss_order) - SSSize(ss_set) < SSMaxExcess
    /\ LET r == symmetric_difference_update(ss_set, ss_order, coll)
           extra == SelectSeq(coll, LAMBDA o : ~SSContains(ss_set, o))
           shared == SelectSeq(coll, LAMBDA o : SSContains(ss_set, o))
       IN \/ /\ SSDangling(remove_deletes(ss_order)) # {}
             /\ ss_crashed' = TRUE
             /\ ss_op' = [SSNoOp EXCEPT !.kind = "symdiff", !.result = "crash"]
             /\ UNCHANGED <<ss_set, ss_order, ss_live>>
          \/ /\ ss_set' = r.set
             /\ ss_order' = r.order
             /\ ss_live' = SSLiveWith(SSLiveWithout(ss_live, shared), extra)
             /\ ss_op' = [SSNoOp EXCEPT !.kind = "symdiff", !.result = "done",
                                        !.used = Len(shared), !.dropped = Len(extra)]
             /\ UNCHANGED ss_crashed
    /\ UNCHANGED ss_refs
    /\ UNCHANGED notSS

\* The caller drops its last reference to an object.
StableSetRelease(o) ==
    /\ ~ss_crashed
    /\ o \in ss_refs
    /\ ss_refs' = ss_refs \ {o}
    /\ UNCHANGED <<ss_set, ss_order, ss_live, ss_op, ss_crashed>>
    /\ UNCHANGED notSS

StableSetNext ==
    \/ StableSetConstruct
    \/ \E o \in SSObjects : StableSetAdd(o)
    \/ \E o \in SSObjects : StableSetRemove(o)
    \/ StableSetPop
    \/ StableSetIter
    \/ StableSetCopy
    \/ \E o \in SSObjects : StableSetRelease(o)

\* Programs that also use symmetric_difference_update, on sets that start
\* empty.
StableSetXorNext ==
    \/ \E o \in SSObjects : StableSetAdd(o)
    \/ \E o \in SSObjects : StableSetRemove(o)
    \/ \E coll \in SSCollections : StableSetSymmetricDifferenceUpdate(coll)
    \/ StableSetIter
    \/ \E o \in SSObjects : StableSetRelease(o)

\* ---------------------------------------------------------------------------
\* patch_hash (src/unnamed/part_009): the tp_hash and tp_dealloc installed on
\* a patched type T, the global cache hashes and the user's hash function,
\* which here returns one Counter or raises.
\* ---------------------------------------------------------------------------

\* The largest value the Counter reaches.
PHMaxCount == 3

PHThreads == {1, 2}

\* The addresses at which instances of T live.
PHObjects == {1, 2}

NoHash == <<"none">>

\* spread64(x): the mixing function is a bijection of the 64-bit words, its
\* value is kept as the term.
spread64(x) == <<"spread64", x>>

\* The hash an instance had before the type was patched.
PHOldHash(o) == <<"old", o>>

PHIdle == [at |-> "idle", self |-> 0]

\* The state right after patch_hash(T, f): the instances that existed are
\* cached by cache_existing_instance_hashes with their old hash.
PatchHashInit ==
    /\ ph_alive \in SUBSET PHObjects
    /\ hashes = [o \in PHObjects |-> IF o \in ph_alive THEN PHOldHash(o) ELSE NoHash]
    /\ ph_counter = 0
    /\ ph_pc = [t \in PHThreads |-> PHIdle]
    /\ ph_first = [o \in PHObjects |-> NoHash]
    /\ ph_last = [o \in PHObjects |-> NoHash]

\* hash(self) has returned value: what the callers have seen of self.
PHReturned(self, value) ==
    /\ ph_first' = IF ph_first[self] = NoHash THEN [ph_first EXCEPT ![self] = value]
                   ELSE ph_first
    /\ ph_last' = [ph_last EXCEPT ![self] = value]

\* hashfunc(self) up to the call of the user's function: a cached hash is
\* returned, otherwise Hasher::hash calls the user's function, during which
\* the interpreter may run another thread.
hashfunc_begin(t, self) ==
    /\ ph_pc[t] = PHIdle
    /\ self \in ph_alive
    /\ IF hashes[self] # NoHash
       THEN /\ PHReturned(self, hashes[self])
            /\ UNCHANGED ph_pc
       ELSE /\ ph_pc' = [ph_pc EXCEPT ![t] = [at |-> "hasher", self |-> self]]
            /\ UNCHANGED <<ph_first, ph_last>>
    /\ UNCHANGED <<ph_alive, hashes, ph_counter>>
    /\ UNCHANGED notPH

\* hashes[self] = hash.
PHStored(self, hash) == [hashes EXCEPT ![self] = hash]

\* The user's function has returned the Counter: Hasher::hash takes its next
\* value, hashfunc caches the hash and returns it.
hashfunc_counter(t) ==
    /\ ph_pc[t].at = "hasher"
    /\ ph_counter < PHMaxCount
    /\ LET self == ph_pc[t].self
           hash == spread64(ph_counter)
       IN /\ ph_counter' = ph_counter + 1
          /\ hashes' = PHStored(self, hash)
          /\ PHReturned(self, hash)
    /\ ph_pc' = [ph_pc EXCEPT ![t] = PHIdle]
    /\ UNCHANGED ph_alive
    /\ UNCHANGED notPH

\* The user's function has raised: hashfunc returns -1 and caches nothing.
hashfunc_error(t) ==
    /\ ph_pc[t].at = "hasher"
    /\ ph_pc' = [ph_pc EXCEPT ![t] = PHIdle]
    /\ UNCHANGED <<ph_alive, hashes, ph_counter, ph_first, ph_last>>
    /\ UNCHANGED notPH

\* The instances no thread is hashing.
PHUnused == {o \in ph_alive : \A t \in PHThreads : ph_pc[t].self # o}

\* patched_dealloc(self): the cached hash is erased and the original
\* deallocator runs with the type's tp_dealloc put back; the instances in
\* nested, which self held the last reference to, are deallocated by it
\* without patched_dealloc.
patched_dealloc(self, nested) ==
    /\ self \in PHUnused
    /\ nested \subseteq PHUnused \ {self}
    /\ hashes' = [hashes EXCEPT ![self] = NoHash]
    /\ ph_alive' = ph_alive \ ({self} \cup nested)
    /\ ph_first' = [o \in PHObjects |-> IF o \in {self} \cup nested THEN NoHash ELSE ph_first[o]]
    /\ ph_last' = [o \in PHObjects |-> IF o \in {self} \cup nested THEN NoHash ELSE ph_last[o]]
    /\ UNCHANGED <<ph_counter, ph_pc>>
    /\ UNCHANGED notPH

\* A new instance of T is allocated at a free address.
PHAlloc(o) ==
    /\ o \notin ph_alive
    /\ ph_alive' = ph_alive \cup {o}
    /\ UNCHANGED <<hashes, ph_counter, ph_pc, ph_first, ph_last>>
    /\ UNCHANGED notPH

PatchHashNext ==
    \/ \E t \in PHThreads, o \in PHObjects : hashfunc_begin(t, o)
    \/ \E t \in PHThreads : hashfunc_counter(t)
    \/ \E t \in PHThreads : hashfunc_error(t)
    \/ \E o \in PHObjects, nested \in SUBSET PHObjects : patched_dealloc(o, nested)
    \/ \E o \in PHObjects : PHAlloc(o)

\* ---------------------------------------------------------------------------
\* WrappedFunction (src/src/wrappedfunction.cpp, src/unnamed/part_001): one
\* vectorcall of wrapped_function(target, handler) with the caller's argument
\* array, its keyword names and its nargsf flag.
\* ---------------------------------------------------------------------------

\* The most positional arguments a call has.
WFMaxArgs == 2

\* The two generations of the source: they differ in what they write in
\* front of the arguments.
WFSources == {"src/src/wrappedfunction.cpp", "src/unnamed/part_001"}

WFPositional == {1, 2}

WFKeywordValues == {3, 4}

\* What a slot of the scratch array that was never written can hold: the
\* value the caller meant, or anything else (0).
WFGarbage == WFKeywordValues \cup {0}

\* kwnames == NULL.
WFNull == <<"NULL">>

WFNothing == [first |-> "none", args |-> <<>>, kwnames |-> WFNull, kwvalues |-> <<>>]

\* The calls a caller can make.
WFCalls ==
    [source : WFSources,
     args : UNION {[1 .. n -> WFPositional] : n \in 0 .. WFMaxArgs},
     kw : {[names |-> WFNull, values |-> <<>>], [names |-> <<>>, values |-> <<>>]}
          \cup {[names |-> <<"x">>, values |-> <<v>>] : v \in WFKeywordValues},
     offset : BOOLEAN]

WrappedFunctionInit ==
    /\ wf_in \in WFCalls
    /\ wf_pc = "ready"
    /\ wf_seen = WFNothing
    /\ wf_calls = 0
    /\ wf_slot = "callers"
    /\ wf_ret = [handler |-> "none", wrapper |-> "none"]

\* What call and call_with_alloca put in front of the arguments.
WFFirst(source) == IF source = "src/unnamed/part_001" THEN "target" ELSE "this"

\* WrappedFunction::call when the caller lends the slot args[-1]: the slot is
\* saved and overwritten and the handler is called on the caller's array, so
\* with the caller's positional and keyword values.
call_borrowed ==
    /\ wf_pc = "ready"
    /\ wf_in.offset
    /\ wf_slot' = WFFirst(wf_in.source)
    /\ wf_seen' = [first |-> WFFirst(wf_in.source), args |-> wf_in.args,
                   kwnames |-> wf_in.kw.names, kwvalues |-> wf_in.kw.values]
    /\ wf_calls' = wf_calls + 1
    /\ wf_pc' = "handler"
    /\ UNCHANGED <<wf_in, wf_ret>>
    /\ UNCHANGED notWF

\* WrappedFunction::call_with_alloca: the scratch array gets the first
\* argument and the nargs positional ones; with keyword names the size is
\* read through nargs taken as an object address, and the slots of the
\* keyword values are never written.
call_with_alloca ==
    /\ wf_pc = "ready"
    /\ ~wf_in.offset
    /\ UNCHANGED <<wf_in, wf_slot, wf_ret>>
    /\ IF wf_in.kw.names = WFNull
       THEN /\ wf_seen' = [first |-> WFFirst(wf_in.source), args |-> wf_in.args,
                           kwnames |-> WFNull, kwvalues |-> <<>>]
            /\ wf_calls' = wf_calls + 1
            /\ wf_pc' = "handler"
       ELSE \/ /\ wf_pc' = "crashed"
               /\ UNCHANGED <<wf_seen, wf_calls>>
            \/ \E unwritten \in [DOMAIN wf_in.kw.values -> WFGarbage] :
                   /\ wf_seen' = [first |-> WFFirst(wf_in.source), args |-> wf_in.args,
                                  kwnames |-> wf_in.kw.names, kwvalues |-> unwritten]
                   /\ wf_calls' = wf_calls + 1
                   /\ wf_pc' = "handler"
    /\ UNCHANGED notWF

\* The handler returns or raises; call puts the caller's slot back and
\* returns what the handler returned.
WrappedFunctionReturn(result) ==
    /\ wf_pc = "handler"
    /\ wf_pc' = "returned"
    /\ wf_slot' = "callers"
    /\ wf_ret' = [handler |-> result, wrapper |-> result]
    /\ UNCHANGED <<wf_in, wf_seen, wf_calls>>
    /\ UNCHANGED notWF

WrappedFunctionNext ==
    \/ call_borrowed
    \/ call_with_alloca
    \/ \E result \in {"value", "raised"} : WrappedFunctionReturn(result)

\* ---------------------------------------------------------------------------
\* IdDict (src/unnamed/part_007): a mapping keyed by the address of the key
\* object; every new key gets a weak reference whose callback erases the
\* entry when the key object is destroyed.
\* ---------------------------------------------------------------------------

\* The addresses of the key objects: 1 and 2 compare equal by value when both
\* are alive, 3 is equal to neither, 4 is of a type without weak references.
IDKeys == 1 .. 4

\* How many times an address is given to a new object.
IDMaxLives == 2

IDValues == {"u", "v"}

NoValue == "absent"

\* The key's type supports weak references.
IDWeakrefable(key) == key # 4

\* The value a key object compares by.
IDEquality(key) == IF key <= 2 THEN 1 ELSE key

IDNoOp == [kind |-> "none", key |-> 0, result |-> NoValue]

IdDictInit ==
    /\ id_alive = {}
    /\ id_lives = [k \in IDKeys |-> 0]
    /\ contents = [k \in IDKeys |-> NoValue]
    /\ id_weakrefs = {}
    /\ id_held = [v \in IDValues |-> 0]
    /\ id_expected = [k \in IDKeys |-> NoValue]
    /\ id_op = IDNoOp
    /\ id_crashed = FALSE

\* An add that makes no weak reference for a new key.
IDNotRegistered(refs, key) == refs

\* PyWeakref_NewRef(key, callback): the weak reference is never released by
\* add, so it lives until its callback releases it.
IDRegistered(refs, key) == refs \cup {key}

\* A key object is constructed at a free address.
IDNewKey(key) ==
    /\ ~id_crashed
    /\ key \notin id_alive
    /\ id_lives[key] < IDMaxLives
    /\ id_alive' = id_alive \cup {key}
    /\ id_lives' = [id_lives EXCEPT ![key] = @ + 1]
    /\ UNCHANGED <<contents, id_weakrefs, id_held, id_expected, id_op, id_crashed>>
    /\ UNCHANGED notID

\* IdDict::setitem(key, value) with a value: IdDict::add.
setitem(key, value) ==
    /\ ~id_crashed
    /\ key \in id_alive
    /\ IF contents[key] # NoValue
       THEN /\ contents' = [contents EXCEPT ![key] = value]
            /\ id_held' = [[id_held EXCEPT ![contents[key]] = @ - 1] EXCEPT ![value] = @ + 1]
            /\ id_expected' = [id_expected EXCEPT ![key] = value]
            /\ id_op' = [kind |-> "setitem", key |-> key, result |-> "stored"]
            /\ UNCHANGED id_weakrefs
       ELSE IF IDWeakrefable(key)
       THEN /\ id_weakrefs' = IDRegistered(id_weakrefs, key)
            /\ contents' = [contents EXCEPT ![key] = value]
            /\ id_held' = [id_held EXCEPT ![value] = @ + 1]
            /\ id_expected' = [id_expected EXCEPT ![key] = value]
            /\ id_op' = [kind |-> "setitem", key |-> key, result |-> "stored"]
       ELSE /\ id_op' = [kind |-> "setitem", key |-> key, result |-> "TypeError"]
            /\ UNCHANGED <<contents, id_weakrefs, id_held, id_expected>>
    /\ UNCHANGED <<id_alive, id_lives, id_crashed>>
    /\ UNCHANGED notID

\* IdDict::getitem(key).
getitem(key) ==
    /\ ~id_crashed
    /\ key \in id_alive
    /\ id_op' = [kind |-> "getitem", key |-> key,
                 result |-> IF contents[key] # NoValue THEN contents[key] ELSE "KeyError"]
    /\ UNCHANGED <<id_alive, id_lives, contents, id_weakrefs, id_held, id_expected, id_crashed>>
    /\ UNCHANGED notID

\* The key object is destroyed: the interpreter calls the callback of its
\* weak reference, WeakRefCallback_vectorcall, which releases the value,
\* erases contents[handle] and releases the weak reference.
WeakRefCallback_vectorcall(handle) ==
    /\ ~id_crashed
    /\ handle \in id_alive
    /\ id_alive' = id_alive \ {handle}
    /\ id_expected' = [id_expected EXCEPT ![handle] = NoValue]
    /\ id_op' = [kind |-> "destroyed", key |-> handle, result |-> contents[handle]]
    /\ IF handle \notin id_weakrefs
       THEN UNCHANGED <<contents, id_weakrefs, id_held, id_crashed>>
       ELSE IF contents[handle] = NoValue
       THEN /\ id_crashed' = TRUE
            /\ UNCHANGED <<contents, id_weakrefs, id_held>>
       ELSE /\ id_held' = [id_held EXCEPT ![contents[handle]] = @ - 1]
            /\ contents' = [contents EXCEPT ![handle] = NoValue]
            /\ id_weakrefs' = id_weakrefs \ {handle}
            /\ UNCHANGED id_crashed
    /\ UNCHANGED id_lives
    /\ UNCHANGED notID

\* IdDict::len.
len == Cardinality({k \in IDKeys : contents[k] # NoValue})

IdDictNext ==
    \/ \E key \in IDKeys : IDNewKey(key)
    \/ \E key \in IDKeys, value \in IDValues : setitem(key, value)
    \/ \E key \in IDKeys : getitem(key)
    \/ \E key \in IDKeys : WeakRefCallback_vectorcall(key)

\* ---------------------------------------------------------------------------
\* RunAll (src/unnamed/part_010): a callable over functions[]; one call of it.
\* ---------------------------------------------------------------------------

\* The most callables a RunAll is constructed with.
RAMaxFunctions == 3

\* What a callable does when it is called.
RABehaviours == {"returns", "raises"}

\* The arguments of the call.
RAArguments == {<<>>, <<1>>, <<1, 2>>}

RunAllInit ==
    /\ functions \in UNION {[1 .. n -> RABehaviours] : n \in 0 .. RAMaxFunctions}
    /\ ra_args \in RAArguments
    /\ ra_i = 1
    /\ ra_log = <<>>
    /\ ra_result = [kind |-> "running", by |-> 0]

\* A loop that goes on after a callable has raised.
RAGoesOn(result) == FALSE

\* if (!result) return nullptr.
RAFailed(result) == result = "raises"

\* One round of the loop of RunAll::call: functions[i] is called with the
\* call's arguments; a failure ends the call with the exception set.
call_function ==
    /\ ra_result.kind = "running"
    /\ ra_i <= Len(functions)
    /\ ra_log' = Append(ra_log, [function |-> ra_i, args |-> ra_args])
    /\ IF RAFailed(functions[ra_i])
       THEN /\ ra_result' = [kind |-> "raised", by |-> ra_i]
            /\ UNCHANGED ra_i
       ELSE /\ ra_i' = ra_i + 1
            /\ UNCHANGED ra_result
    /\ UNCHANGED <<functions, ra_args>>
    /\ UNCHANGED notRA

\* The loop is over: Py_RETURN_NONE.
call_return ==
    /\ ra_result.kind = "running"
    /\ ra_i > Len(functions)
    /\ ra_result' = [kind |-> "None", by |-> 0]
    /\ UNCHANGED <<functions, ra_args, ra_i, ra_log>>
    /\ UNCHANGED notRA

RunAllNext == call_function \/ call_return

\* ---------------------------------------------------------------------------
\* IdSet (src/unnamed/part_011) and FastSet (src/cpp/fastset.cpp): sets of
\* object addresses with add, remove and the membership call.
\* ---------------------------------------------------------------------------

ISKinds == {"idset", "fastset"}

ISObjects == 1 .. 3

ISNoOp == [set |-> "none", op |-> "none", obj |-> 0, was |-> FALSE, result |-> "none"]

IdSetInit ==
    /\ is_contents = [s \in ISKinds |-> {}]
    /\ is_refs = [s \in ISKinds |-> [o \in ISObjects |-> 0]]
    /\ is_op = ISNoOp
    /\ is_crashed = FALSE

\* contains(obj).
contains(s, obj) == obj \in is_contents[s]

\* add(obj) of both sets: insert, and a reference on the object when it was
\* inserted; True when newly added.
IdSetAdd(s, obj) ==
    /\ ~is_crashed
    /\ is_contents' = [is_contents EXCEPT ![s] = @ \cup {obj}]
    /\ is_refs' = IF contains(s, obj) THEN is_refs
                  ELSE [is_refs EXCEPT ![s][obj] = @ + 1]
    /\ is_op' = [set |-> s, op |-> "add", obj |-> obj, was |-> contains(s, obj),
                 result |-> IF contains(s, obj) THEN "False" ELSE "True"]
    /\ UNCHANGED is_crashed
    /\ UNCHANGED notIS

\* IdSet::remove after Py_DECREF(*it): the entry stays in contents.
remove_found(elems, obj) == elems

\* IdSet::py_remove(obj): False when obj is not found; otherwise the set's
\* reference is released and True is returned.  Releasing a reference the set
\* no longer holds is a release of somebody else's reference.
py_remove(obj) ==
    /\ ~is_crashed
    /\ IF ~contains("idset", obj)
       THEN /\ is_op' = [set |-> "idset", op |-> "remove", obj |-> obj, was |-> FALSE,
                         result |-> "False"]
            /\ UNCHANGED <<is_contents, is_refs, is_crashed>>
       ELSE /\ is_contents' = [is_contents EXCEPT !["idset"] = remove_found(@, obj)]
            /\ is_op' = [set |-> "idset", op |-> "remove", obj |-> obj, was |-> TRUE,
                         result |-> "True"]
            /\ IF is_refs["idset"][obj] > 0
               THEN /\ is_refs' = [is_refs EXCEPT !["idset"][obj] = @ - 1]
                    /\ UNCHANGED is_crashed
               ELSE /\ is_crashed' \in BOOLEAN
                    /\ UNCHANGED is_refs
    /\ UNCHANGED notIS

\* FastSet::remove(obj): KeyError when obj is not found; otherwise the
\* reference is released and the entry erased.
FastSetRemove(obj) ==
    /\ ~is_crashed
    /\ IF ~contains("fastset", obj)
       THEN /\ is_op' = [set |-> "fastset", op |-> "remove", obj |-> obj, was |-> FALSE,
                         result |-> "KeyError"]
            /\ UNCHANGED <<is_contents, is_refs>>
       ELSE /\ is_contents' = [is_contents EXCEPT !["fastset"] = @ \ {obj}]
            /\ is_refs' = [is_refs EXCEPT !["fastset"][obj] = @ - 1]
            /\ is_op' = [set |-> "fastset", op |-> "remove", obj |-> obj, was |-> TRUE,
                         result |-> "None"]
    /\ UNCHANGED is_crashed
    /\ UNCHANGED notIS

\* The membership call set(obj).
IdSetCall(s, obj) ==
    /\ ~is_crashed
    /\ is_op' = [set |-> s, op |-> "call", obj |-> obj, was |-> contains(s, obj),
                 result |-> IF contains(s, obj) THEN "True" ELSE "False"]
    /\ UNCHANGED <<is_contents, is_refs, is_crashed>>
    /\ UNCHANGED notIS

IdSetNext ==
    \/ \E s \in ISKinds, obj \in ISObjects : IdSetAdd(s, obj)
    \/ \E obj \in ISObjects : py_remove(obj)
    \/ \E obj \in ISObjects : FastSetRemove(obj)
    \/ \E s \in ISKinds, obj \in ISObjects : IdSetCall(s, obj)

\* ---------------------------------------------------------------------------
\* CollectPred (src/unnamed/part_002) over generation_to_collect
\* (src/unnamed/part_004): which collector generation is over its threshold.
\* ---------------------------------------------------------------------------

NUM_GENERATIONS == 3

\* Width of the C int of this model.
CPIntBits == 5

CPMaxCount == 2

CPGenerations == 0 .. NUM_GENERATIONS - 1

CPCounts == 0 .. CPMaxCount

CPThresholds == {0, CPMaxCount}

\* The 'I' format accepts every unsigned int.
CPMultipliers == 0 .. 2 ^ CPIntBits - 1

CPIntMax == 2 ^ (CPIntBits - 1) - 1

CPIntMin == 0 - 2 ^ (CPIntBits - 1)

CPFits(x) == CPIntMin <= x /\ x <= CPIntMax

\* CollectPred::init: the unsigned argument is stored into the int field.
CollectPred_init(arg) == IF arg > CPIntMax THEN arg - 2 ^ CPIntBits ELSE arg

CollectPredInit ==
    /\ generations \in [CPGenerations -> [count : CPCounts, threshold : CPThresholds]]
    /\ cp_arg \in CPMultipliers
    /\ multiplier = CollectPred_init(cp_arg)
    /\ cp_called = FALSE
    /\ cp_result = -1

\* A scan that starts from generation 0 and goes up.
RECURSIVE CPLowestFirst(_, _, _)
CPLowestFirst(gens, m, i) ==
    IF i < 0 \/ i >= NUM_GENERATIONS THEN {-1}
    ELSE LET j == NUM_GENERATIONS - 1 - i
         IN  IF ~CPFits(gens[j].count * m) THEN -1 .. NUM_GENERATIONS - 1
             ELSE IF gens[j].count * m > gens[j].threshold THEN {j}
             ELSE CPLowestFirst(gens, m, i - 1)

\* generation_to_collect(multiplier), the loop from generation i downwards:
\* the values it can return.  A product outside the int range is undefined
\* and can make the loop return anything.
RECURSIVE generation_to_collect(_, _, _)
generation_to_collect(gens, m, i) ==
    IF i < 0 THEN {-1}
    ELSE IF ~CPFits(gens[i].count * m) THEN -1 .. NUM_GENERATIONS - 1
    ELSE IF gens[i].count * m > gens[i].threshold THEN {i}
    ELSE generation_to_collect(gens, m, i - 1)

\* CollectPred::call: -1 stands for the none-value.
CollectPredCall ==
    /\ ~cp_called
    /\ cp_result' \in generation_to_collect(generations, multiplier, NUM_GENERATIONS - 1)
    /\ cp_called' = TRUE
    /\ UNCHANGED <<generations, cp_arg, multiplier>>
    /\ UNCHANGED notCP

CollectPredNext == CollectPredCall

\* ---------------------------------------------------------------------------
\* On-alloc callbacks (src/src/onalloc.cpp): set_on_alloc patches a type's
\* tp_alloc, and the patched slot looks a callback up for every allocation.
\* Types form one inheritance chain 1, 2, ...: type n + 1 derives from type n.
\* ---------------------------------------------------------------------------

OAMaxTypes == 3

OAMaxSpins == 2

OATypes == 1 .. OAMaxTypes

\* cls->tp_base; 0 is the null of the root.
tp_base(cls) == cls - 1

OACallbacks == {"returns", "raises"}

OAPatchedSlots == {"PyType_GenericAlloc_Wrapper", "generic_alloc"}

OnAllocInit ==
    /\ oa_types = {1}
    /\ tp_alloc \in [OATypes -> {"PyType_GenericAlloc", "custom"}]
    /\ \A t \in OATypes : tp_alloc[t] = tp_alloc[1]
    /\ allocfuncs = {}
    /\ tp_dict = [t \in OATypes |-> "none"]
    /\ oa_pc = "idle"
    /\ oa_type = 0
    /\ oa_cls = 0
    /\ oa_spins = 0
    /\ oa_result = "none"

is_patched(func) == func \in OAPatchedSlots

\* patch_alloc(cls): the slot after patching.
patch_alloc(func) ==
    IF func = "PyType_GenericAlloc" THEN "PyType_GenericAlloc_Wrapper" ELSE "generic_alloc"

\* set_on_alloc(type, callback).
set_on_alloc(type, callback) ==
    /\ oa_pc = "idle"
    /\ type \in oa_types
    /\ IF is_patched(tp_alloc[type])
       THEN UNCHANGED <<tp_alloc, allocfuncs>>
       ELSE /\ tp_alloc' = [tp_alloc EXCEPT ![type] = patch_alloc(@)]
            /\ allocfuncs' = IF tp_alloc[type] = "PyType_GenericAlloc" THEN allocfuncs
                             ELSE allocfuncs \cup {type}
    /\ tp_dict' = [tp_dict EXCEPT ![type] = callback]
    /\ UNCHANGED <<oa_types, oa_pc, oa_type, oa_cls, oa_spins, oa_result>>
    /\ UNCHANGED notOA

\* The runtime creates a subtype of the newest type: it inherits the base's
\* tp_alloc slot and has a dictionary of its own.
OASubtype ==
    /\ oa_pc = "idle"
    /\ \E t \in OATypes \ oa_types :
        /\ tp_base(t) \in oa_types
        /\ oa_types' = oa_types \cup {t}
        /\ tp_alloc' = [tp_alloc EXCEPT ![t] = tp_alloc[tp_base(t)]]
        /\ tp_dict' = [tp_dict EXCEPT ![t] = "none"]
    /\ UNCHANGED <<allocfuncs, oa_pc, oa_type, oa_cls, oa_spins, oa_result>>
    /\ UNCHANGED notOA

\* generic_alloc / PyType_GenericAlloc_Wrapper up to call_callback: the
\* original allocator is looked up (generic_alloc) and called, and may fail.
OAAlloc(type, allocated) ==
    /\ oa_pc = "idle"
    /\ type \in oa_types
    /\ is_patched(tp_alloc[type])
    /\ oa_type' = type
    /\ oa_spins' = 0
    /\ IF tp_alloc[type] = "generic_alloc" /\ type \notin allocfuncs
       THEN /\ oa_result' = "RuntimeError"
            /\ UNCHANGED <<oa_pc, oa_cls>>
       ELSE IF ~allocated
       THEN /\ oa_result' = "MemoryError"
            /\ UNCHANGED <<oa_pc, oa_cls>>
       ELSE /\ oa_result' = "none"
            /\ oa_pc' = "find_callback"
            /\ oa_cls' = type
    /\ UNCHANGED <<oa_types, tp_alloc, allocfuncs, tp_dict>>
    /\ UNCHANGED notOA




\* find_callback: cls at the end of an iteration that found no callback.
find_callback_next(cls) == cls

\* One iteration of find_callback's while (cls).
find_callback ==
    /\ oa_pc = "find_callback"
    /\ IF oa_cls = 0
       THEN /\ oa_pc' = "idle"
            /\ oa_result' = "object"
            /\ UNCHANGED <<oa_cls, oa_spins>>
       ELSE IF tp_dict[oa_cls] # "none"
       THEN /\ oa_pc' = "callback"
            /\ UNCHANGED <<oa_cls, oa_spins, oa_result>>
       ELSE /\ oa_spins < OAMaxSpins
            /\ oa_cls' = find_callback_next(oa_cls)
            /\ oa_spins' = oa_spins + 1
            /\ UNCHANGED <<oa_pc, oa_result>>
    /\ UNCHANGED <<oa_types, tp_alloc, allocfuncs, tp_dict, oa_type>>
    /\ UNCHANGED notOA

\* call_callback after the lookup, and the end of the allocation: a failing
\* callback releases the object and fails the allocation.
call_callback ==
    /\ oa_pc = "callback"
    /\ oa_pc' = "idle"
    /\ oa_result' = IF tp_dict[oa_cls] = "returns" THEN "object" ELSE "error"
    /\ UNCHANGED <<oa_types, tp_alloc, allocfuncs, tp_dict, oa_type, oa_cls, oa_spins>>
    /\ UNCHANGED notOA

OnAllocNext ==
    \/ \E type \in OATypes, callback \in OACallbacks : set_on_alloc(type, callback)
    \/ OASubtype
    \/ \E type \in OATypes, allocated \in BOOLEAN : OAAlloc(type, allocated)
    \/ find_callback
    \/ call_callback

\* ---------------------------------------------------------------------------
\* create_wrapped (src/src/wrapped.cpp): allocate an instance of a subtype of
\* Wrapped around a target, without running the type's own construction.
\* ---------------------------------------------------------------------------

CWTargets == 1 .. 3

\* The type passed in: whether it derives from Wrapped, whether its tp_new and
\* tp_init are Wrapped's, and whether its tp_alloc will return an object.
CWTypes == [subtype : BOOLEAN, tp_new : BOOLEAN, tp_init : BOOLEAN, allocates : BOOLEAN]

CWQuietType == [subtype |-> TRUE, tp_new |-> TRUE, tp_init |-> TRUE, allocates |-> TRUE]

CreateWrappedInit ==
    /\ cw_cls \in CWTypes
    /\ cw_target \in CWTargets
    /\ cw_pc = "PyType_IsSubtype"
    /\ cw_error = "none"
    /\ cw_self = 0

\* if (!PyType_IsSubtype(cls, &Wrapped_Type)) { PyErr_Format; return nullptr; }
create_wrapped_subtype ==
    /\ cw_pc = "PyType_IsSubtype"
    /\ IF ~cw_cls.subtype
       THEN cw_error' = "TypeError" /\ cw_pc' = "returned"
       ELSE cw_pc' = "tp_new" /\ UNCHANGED cw_error
    /\ UNCHANGED <<cw_cls, cw_target, cw_self>>
    /\ UNCHANGED notCW

\* if (cls->tp_new != Wrapped_Type.tp_new) { PyErr_Format; }
create_wrapped_tp_new ==
    /\ cw_pc = "tp_new"
    /\ cw_error' = IF ~cw_cls.tp_new THEN "TypeError" ELSE cw_error
    /\ cw_pc' = "tp_init"
    /\ UNCHANGED <<cw_cls, cw_target, cw_self>>
    /\ UNCHANGED notCW

\* if (cls->tp_init != Wrapped_Type.tp_init) { PyErr_Format; }
create_wrapped_tp_init ==
    /\ cw_pc = "tp_init"
    /\ cw_error' = IF ~cw_cls.tp_init THEN "TypeError" ELSE cw_error
    /\ cw_pc' = "tp_alloc"
    /\ UNCHANGED <<cw_cls, cw_target, cw_self>>
    /\ UNCHANGED notCW

\* self = cls->tp_alloc(cls, 0); self->target = Py_NewRef(target); return
\* self.  The store goes through a null pointer when the allocation failed.
create_wrapped_tp_alloc ==
    /\ cw_pc = "tp_alloc"
    /\ IF cw_cls.allocates
       THEN cw_self' = cw_target /\ cw_pc' = "returned" /\ UNCHANGED cw_error
       ELSE cw_pc' = "crashed" /\ cw_error' = "MemoryError" /\ UNCHANGED cw_self
    /\ UNCHANGED <<cw_cls, cw_target>>
    /\ UNCHANGED notCW

CreateWrappedNext ==
    \/ create_wrapped_subtype
    \/ create_wrapped_tp_new
    \/ create_wrapped_tp_init
    \/ create_wrapped_tp_alloc

-----------------------------------------------------------------------------
(***************************************************************************)
(* Specifications: one component runs, the others stay as constructed.     *)
(***************************************************************************)

BCQuiet == BCInit /\ bc_seq = [t \in BCThreads |-> 0]

DMQuiet == DMInit /\ dm_on_timeout = FALSE

PatchHashQuiet == PatchHashInit /\ ph_alive = {}

WrappedFunctionQuiet ==
    WrappedFunctionInit /\ wf_in = [source |-> "src/unnamed/part_001", args |-> <<>>,
                                    kw |-> [names |-> WFNull, values |-> <<>>], offset |-> TRUE]

RunAllQuiet == RunAllInit /\ functions = <<>> /\ ra_args = <<>>

CollectPredQuiet ==
    /\ CollectPredInit
    /\ generations = [g \in CPGenerations |-> [count |-> 0, threshold |-> 0]]
    /\ cp_arg = 0

OnAllocQuiet == OnAllocInit /\ tp_alloc[1] = "PyType_GenericAlloc"

CreateWrappedQuiet == CreateWrappedInit /\ cw_cls = CWQuietType /\ cw_target = 1

FEQuiet == FEInit /\ eval_frame = "_PyEval_EvalFrameDefault"

InitBC == gil = NoThread /\ BCInit /\ DMQuiet /\ GateInit /\ ScopeInit /\ TSInit /\ FEQuiet /\ StackInit /\ StableSetInit /\ PatchHashQuiet /\ WrappedFunctionQuiet /\ IdDictInit /\ RunAllQuiet /\ IdSetInit /\ CollectPredQuiet /\ OnAllocQuiet /\ CreateWrappedQuiet

InitDM == gil = NoThread /\ DMInit /\ BCQuiet /\ GateInit /\ ScopeInit /\ TSInit /\ FEQuiet /\ StackInit /\ StableSetInit /\ PatchHashQuiet /\ WrappedFunctionQuiet /\ IdDictInit /\ RunAllQuiet /\ IdSetInit /\ CollectPredQuiet /\ OnAllocQuiet /\ CreateWrappedQuiet

InitGate == gil = NoThread /\ GateInit /\ BCQuiet /\ DMQuiet /\ ScopeInit /\ TSInit /\ FEQuiet /\ StackInit /\ StableSetInit /\ PatchHashQuiet /\ WrappedFunctionQuiet /\ IdDictInit /\ RunAllQuiet /\ IdSetInit /\ CollectPredQuiet /\ OnAllocQuiet /\ CreateWrappedQuiet

InitTS == gil = NoThread /\ TSInit /\ BCQuiet /\ DMQuiet /\ GateInit /\ ScopeInit /\ FEQuiet /\ StackInit /\ StableSetInit /\ PatchHashQuiet /\ WrappedFunctionQuiet /\ IdDictInit /\ RunAllQuiet /\ IdSetInit /\ CollectPredQuiet /\ OnAllocQuiet /\ CreateWrappedQuiet

InitFE == gil = NoThread /\ FEInit /\ BCQuiet /\ DMQuiet /\ GateInit /\ ScopeInit /\ TSInit /\ StackInit /\ StableSetInit /\ PatchHashQuiet /\ WrappedFunctionQuiet /\ IdDictInit /\ RunAllQuiet /\ IdSetInit /\ CollectPredQuiet /\ OnAllocQuiet /\ CreateWrappedQuiet

InitStack == gil = NoThread /\ StackInit /\ BCQuiet /\ DMQuiet /\ GateInit /\ ScopeInit /\ TSInit /\ FEQuiet /\ StableSetInit /\ PatchHashQuiet /\ WrappedFunctionQuiet /\ IdDictInit /\ RunAllQuiet /\ IdSetInit /\ CollectPredQuiet /\ OnAllocQuiet /\ CreateWrappedQuiet

InitSS == gil = NoThread /\ BCQuiet /\ DMQuiet /\ GateInit /\ ScopeInit /\ TSInit /\ FEQuiet /\ StackInit /\ StableSetInit /\ PatchHashQuiet /\ WrappedFunctionQuiet /\ IdDictInit /\ RunAllQuiet /\ IdSetInit /\ CollectPredQuiet /\ OnAllocQuiet /\ CreateWrappedQuiet

InitPH == gil = NoThread /\ BCQuiet /\ DMQuiet /\ GateInit /\ ScopeInit /\ TSInit /\ FEQuiet /\ StackInit /\ StableSetInit /\ PatchHashInit /\ WrappedFunctionQuiet /\ IdDictInit /\ RunAllQuiet /\ IdSetInit /\ CollectPredQuiet /\ OnAllocQuiet /\ CreateWrappedQuiet

InitWF == gil = NoThread /\ BCQuiet /\ DMQuiet /\ GateInit /\ ScopeInit /\ TSInit /\ FEQuiet /\ StackInit /\ StableSetInit /\ PatchHashQuiet /\ WrappedFunctionInit /\ IdDictInit /\ RunAllQuiet /\ IdSetInit /\ CollectPredQuiet /\ OnAllocQuiet /\ CreateWrappedQuiet

InitID == gil = NoThread /\ BCQuiet /\ DMQuiet /\ GateInit /\ ScopeInit /\ TSInit /\ FEQuiet /\ StackInit /\ StableSetInit /\ PatchHashQuiet /\ WrappedFunctionQuiet /\ IdDictInit /\ RunAllQuiet /\ IdSetInit /\ CollectPredQuiet /\ OnAllocQuiet /\ CreateWrappedQuiet

InitRA == gil = NoThread /\ BCQuiet /\ DMQuiet /\ GateInit /\ ScopeInit /\ TSInit /\ FEQuiet /\ StackInit /\ StableSetInit /\ PatchHashQuiet /\ WrappedFunctionQuiet /\ IdDictInit /\ RunAllInit /\ IdSetInit /\ CollectPredQuiet /\ OnAllocQuiet /\ CreateWrappedQuiet

InitIS == gil = NoThread /\ BCQuiet /\ DMQuiet /\ GateInit /\ ScopeInit /\ TSInit /\ FEQuiet /\ StackInit /\ StableSetInit /\ PatchHashQuiet /\ WrappedFunctionQuiet /\ IdDictInit /\ RunAllQuiet /\ IdSetInit /\ CollectPredQuiet /\ OnAllocQuiet /\ CreateWrappedQuiet

InitCP == gil = NoThread /\ BCQuiet /\ DMQuiet /\ GateInit /\ ScopeInit /\ TSInit /\ FEQuiet /\ StackInit /\ StableSetInit /\ PatchHashQuiet /\ WrappedFunctionQuiet /\ IdDictInit /\ RunAllQuiet /\ IdSetInit /\ CollectPredInit /\ OnAllocQuiet /\ CreateWrappedQuiet

InitOA == gil = NoThread /\ BCQuiet /\ DMQuiet /\ GateInit /\ ScopeInit /\ TSInit /\ FEQuiet /\ StackInit /\ StableSetInit /\ PatchHashQuiet /\ WrappedFunctionQuiet /\ IdDictInit /\ RunAllQuiet /\ IdSetInit /\ CollectPredQuiet /\ OnAllocInit /\ CreateWrappedQuiet

InitCW == gil = NoThread /\ BCQuiet /\ DMQuiet /\ GateInit /\ ScopeInit /\ TSInit /\ FEQuiet /\ StackInit /\ StableSetInit /\ PatchHashQuiet /\ WrappedFunctionQuiet /\ IdDictInit /\ RunAllQuiet /\ IdSetInit /\ CollectPredQuiet /\ OnAllocQuiet /\ CreateWrappedInit

SpecBC == InitBC /\ [][BCNext]_vars

\* Fair scheduling: a thread that can take a step again and again (also one
\* competing for mtx or the GIL) eventually takes it; a spurious wake-up is
\* allowed but never promised.
FairSpecBC == SpecBC /\ \A t \in BCThreads : SF_vars(BCNextStep(t))

SpecDM == InitDM /\ [][DMNext]_vars

SpecGate == InitGate /\ [][GateNext]_vars

SpecScope == InitGate /\ [][ScopeNext]_vars

SpecTS == InitTS /\ [][TSNext]_vars

SpecFE == InitFE /\ [][FENext]_vars

SpecCF == InitFE /\ [][CFNext]_vars

SpecStack == InitStack /\ [][StackNext]_vars

SpecSS == InitSS /\ [][StableSetNext]_vars

SpecPH == InitPH /\ [][PatchHashNext]_vars

SpecWF == InitWF /\ [][WrappedFunctionNext]_vars

SpecID == InitID /\ [][IdDictNext]_vars

SpecRA == InitRA /\ [][RunAllNext]_vars

SpecIS == InitIS /\ [][IdSetNext]_vars

SpecCP == InitCP /\ [][CollectPredNext]_vars

SpecOA == InitOA /\ [][OnAllocNext]_vars

SpecCW == InitCW /\ [][CreateWrappedNext]_vars

SpecGR == InitGate /\ [][GateReuseNext]_vars

SpecSX == InitSS /\ [][StableSetXorNext]_vars

SpecTP == InitTS /\ [][TSPairNext]_vars

-----------------------------------------------------------------------------
(***************************************************************************)
(* Properties                                                              *)
(***************************************************************************)

\* The setting of the ordering claims: the N threads call next(0) .. next(N-1),
\* each value once.
BCDistinctSeqs == \A t, u \in BCThreads : t # u => bc_seq[t] # bc_seq[u]

\* Positions of next() after the wait has been passed.
BCPassedWait == {"restore", "unlock", "incr", "notify", "ret", "done"}

\* Positions of next() after counter++ has been executed.
BCServedPcs == {"notify", "ret", "done"}

BCServedSeqs == {bc_seq[t] : t \in {u \in BCThreads : bc_pc[u] \in BCServedPcs}}

BCAllDone == \A t \in BCThreads : bc_pc[t] = "done"

\* C1: with distinct sequence numbers 0..N-1 on a fresh counter, a call next(i)
\* gets past its wait (and so returns) only when the calls next(0) .. next(i-1)
\* have all passed their wait and executed counter++; the calls are served in
\* strictly increasing seq order, and no call traps.
C1_StrictOrder ==
    BCDistinctSeqs =>
        /\ \A t \in BCThreads :
              bc_pc[t] \in BCPassedWait =>
                  \A j \in BCSeqs : j < bc_seq[t] => j \in BCServedSeqs
        /\ \A i \in 1 .. Len(bc_served) : bc_served[i] = i - 1
        /\ ~bc_trapped

C1_Witness ==
    /\ BCDistinctSeqs
    /\ BCAllDone
    /\ \A t \in BCThreads : bc_ret[t] = bc_seq[t] + 1
    /\ Len(bc_served) = BCThreadCount

\* C2: under fair scheduling, with distinct sequence numbers 0..N-1 on a fresh
\* counter every call of next eventually returns (no wake-up is lost).
C2_EveryCallReturns == BCDistinctSeqs => <>BCAllDone


-----------------------------------------------------------------------------
(***************************************************************************)
(* Properties of the Demultiplexer.                                        *)
(***************************************************************************)

\* Inside wait(key): between WaitingContext's constructor and its destructor.
DMInWait(t) ==
    \/ dm_pc[t] \in {"lock", "pred", "park", "parked", "relock", "matched", "expired"}
    \/ dm_pc[t] \in DMCallbackPcs /\ dm_site[t] = "pred"

DMWaiters == {t \in DMThreads : DMInWait(t)}

\* The outcomes of the finished get calls: <<key, kind, item>>.
DMOutcomes == UNION {{dm_log[t][i] : i \in DOMAIN dm_log[t]} : t \in DMThreads}

\* Every get call so far was made by thread t, and has finished.
DMSingleConsumer(t) == dm_pc[t] = "idle" /\ dm_ncalls = Len(dm_log[t])

\* Thread t has asked for the keys of the first items, in the source's order.
DMAskedInOrder(t) == \A i \in 1 .. Len(dm_log[t]) : dm_log[t][i][1] = DMKeyOf(i)

\* C3: with a single consumer that calls get(1), get(2), get(3) against a
\* source yielding the items keyed 1, 2, 3 in that order, the i-th call
\* returns the i-th item, every item is returned once, and the source has
\* been called once per get.
C3_SingleConsumerInOrder ==
    \A t \in DMThreads :
        DMSingleConsumer(t) /\ DMAskedInOrder(t)
            => /\ \A i \in 1 .. Len(dm_log[t]) : dm_log[t][i] = <<DMKeyOf(i), "item", i>>
               /\ dm_src_calls = Len(dm_log[t])

C3_Witness ==
    \E t \in DMThreads :
        /\ DMSingleConsumer(t)
        /\ dm_log[t] = <<<<DMKeyOf(1), "item", 1>>, <<DMKeyOf(2), "item", 2>>,
                         <<DMKeyOf(3), "item", 3>>>>
        /\ dm_src_calls = 3

\* C4: a get(2) issued before any get(1) does not return item 2 until
\* another consumer's get(1) has consumed item 1 (it stays blocked, or takes
\* the timeout path): whenever a thread's first call has returned item 2 to
\* get(2), another thread's get(1) has returned item 1.
C4_SecondItemAfterFirst ==
    \A t \in DMThreads :
        (dm_log[t] # <<>> /\ dm_log[t][1] = <<DMKeyOf(2), "item", 2>>)
            => \E u \in DMThreads \ {t} :
                   \E i \in DOMAIN dm_log[u] : dm_log[u][i] = <<DMKeyOf(1), "item", 1>>

\* A get call of thread t returns the lookahead item in this step.
DMConsumes(t) ==
    /\ Len(dm_log'[t]) = Len(dm_log[t]) + 1
    /\ dm_log'[t][Len(dm_log'[t])][2] = "item"

\* C5: when get(key) consumes the lookahead item while other threads are
\* waiting, it pulls the next lookahead item from the source and wakes all
\* waiters: after the step there is a lookahead item again and no thread is
\* left parked.
C5_ConsumePullsNextAndWakes ==
    [][\A t \in DMThreads :
          DMConsumes(t) /\ DMWaiters \ {t} # {} /\ dm_src_calls < DMItemCount
              => dm_next' # NoItem /\ dm_waiting' = {}]_vars

\* C6: the pending map and the pending_keys set hold exactly the keys of the
\* threads that are inside wait, each mapped to its thread, so a key is
\* registered before the waiter releases the GIL and is gone after every
\* exit from the wait.
C6_PendingIsWaiters ==
    /\ dm_pending_keys = {dm_key[t] : t \in DMWaiters}
    /\ DOMAIN dm_pending = dm_pending_keys
    /\ \A t \in DMWaiters : dm_pending[dm_key[t]] = t

C6_Witness ==
    \E t \in DMThreads, u \in DMThreads :
        /\ dm_pc[t] = "idle"
        /\ dm_log[t] # <<>>
        /\ dm_log[t][Len(dm_log[t])][2] \in {"on_timeout", "runtime_error"}
        /\ dm_pc[u] = "parked"
        /\ dm_pending_keys = {dm_key[u]}
        /\ dm_log[t][Len(dm_log[t])][1] # dm_key[u]

\* Thread t has found that its key does not match the lookahead item while
\* another thread waits on an equal key.
DMDuplicateGet(t) ==
    /\ DMAtFastTest(t)
    /\ ~DMMatches(t)
    /\ \E u \in DMWaiters \ {t} : dm_key[u] = dm_key[t]

\* C7: at most one thread is blocked per key at any time; a get(key) whose
\* key does not match the lookahead item while another thread waits on an
\* equal key raises a value error, registers nothing and does not block.
C7_OneWaiterPerKey ==
    /\ [](\A t \in DMWaiters, u \in DMWaiters : dm_key[t] = dm_key[u] => t = u)
    /\ [][\A t \in DMThreads :
             DMDuplicateGet(t) /\ dm_pc'[t] # dm_pc[t]
                 => /\ dm_log' = DMLogged(t, "value_error", NoItem)
                    /\ dm_pc'[t] = "idle"
                    /\ UNCHANGED <<dm_pending, dm_pending_keys, dm_next>>]_vars

C7_Witness ==
    \E t \in DMThreads, u \in DMThreads :
        /\ t # u
        /\ dm_pc[t] = "idle"
        /\ dm_log[t] # <<>>
        /\ dm_log[t][Len(dm_log[t])] = <<dm_key[u], "value_error", NoItem>>
        /\ DMInWait(u)
        /\ dm_pending_keys = {dm_key[u]}

\* The call of thread t ends in this step, after its wait reached the
\* timeout and the last test of the predicate found no match.
DMEndsTimedOut(t) ==
    /\ DMInWait(t)
    /\ dm_pc'[t] = "idle"
    /\ dm_timedout[t]
    /\ ~DMMatches(t)

\* C8: a blocked get(key) that reaches its timeout without the lookahead
\* item's key matching returns the result of on_timeout(self, key) when
\* on_timeout is configured and raises a runtime error otherwise, and it
\* leaves the lookahead item where it is.
C8_TimeoutPath ==
    [][\A t \in DMThreads :
          DMEndsTimedOut(t)
              => /\ dm_log' = DMLogged(t, IF dm_on_timeout THEN "on_timeout"
                                          ELSE "runtime_error", NoItem)
                 /\ dm_next' = dm_next]_vars

C8_Witness ==
    \E t \in DMThreads :
        /\ dm_pc[t] = "idle"
        /\ dm_log[t] # <<>>
        /\ dm_log[t][Len(dm_log[t])][2] = "on_timeout"
        /\ dm_next # NoItem
        /\ DMKeyOf(dm_next) # dm_log[t][Len(dm_log[t])][1]

\* The keys of the get calls made so far, finished or in progress.
DMKeysAsked ==
    UNION {{dm_log[t][i][1] : i \in 1 .. Len(dm_log[t])} : t \in DMThreads}
        \cup {dm_key[t] : t \in {u \in DMThreads : dm_pc[u] # "idle"}}

\* All get calls so far had pairwise distinct keys.
DMDistinctKeys == Cardinality(DMKeysAsked) = dm_ncalls

\* The finished get calls that returned the item: thread and position.
DMReturnsOf(item) ==
    {r \in DMThreads \X (1 .. DMMaxCalls) :
        /\ r[2] <= Len(dm_log[r[1]])
        /\ dm_log[r[1]][r[2]][2] = "item"
        /\ dm_log[r[1]][r[2]][3] = item}

\* The items the source has handed out.
DMPulled == 1 .. (IF dm_src_calls < DMItemCount THEN dm_src_calls ELSE DMItemCount)

\* C35: with consumer threads calling get with pairwise distinct keys, every
\* item pulled from the source is the lookahead item or has been returned by
\* exactly one get, whose key is the item's key; no item is lost or returned
\* twice, and no get returns successfully without an item.
C35_EachItemOnce ==
    (DMDistinctKeys /\ ~dm_aborted) =>
        /\ \A item \in DMPulled :
            /\ Cardinality(DMReturnsOf(item)) <= 1
            /\ item = dm_next \/ DMReturnsOf(item) # {}
            /\ \A r \in DMReturnsOf(item) : dm_log[r[1]][r[2]][1] = DMKeyOf(item)
        /\ DMReturnsOf(NoItem) = {}

-----------------------------------------------------------------------------
(***************************************************************************)
(* Properties of Gate and BoundGate.                                       *)
(***************************************************************************)

\* What a thread's own history says a BoundGate call does on a gate without
\* default: e(f) after set(e), f() before any set and after disable.
GateOwnCall(own) == IF own \in GateExecutors THEN own ELSE "f()"

\* C9: on one thread, with gate = Gate() (no default) and bound =
\* gate.bind(f): bound() calls f() directly; after gate.set(e) it calls e(f);
\* after gate.disable() it calls f() directly again.
C9_BoundCallFollowsSet ==
    (/\ gate_last # <<>>
     /\ gate_last.alone
     /\ default_executor[gate_last.gate] = NoExecutor)
        => gate_last.called = GateOwnCall(gate_last.own)

C9_Witness ==
    /\ gate_last # <<>>
    /\ gate_last.alone
    /\ default_executor[gate_last.gate] = NoExecutor
    /\ gate_last.own = "disabled"
    /\ gate_last.called = "f()"
    /\ gate_last.owner = gate_last.thread

\* The executor a thread's own set / disable calls and the gate's default
\* determine: the one it set last, else the default, else none.
GateOwnExecutor(t, g) ==
    IF gate_own[t][g] \in GateExecutors THEN gate_own[t][g] ELSE default_executor[g]

\* C10: for any interleaving of two threads using the same Gate, the
\* executor a thread resolves, and what a BoundGate call on it has called,
\* is the one its own set / disable calls and the gate's default determine,
\* whoever filled the process-wide cache.
C10_ThreadsDoNotInterfere ==
    /\ \A t \in GateThreads, g \in Gates : GateExecutor(t, g) = GateOwnExecutor(t, g)
    /\ gate_last # <<>> =>
           gate_last.called =
               IF gate_last.own \in GateExecutors THEN gate_last.own
               ELSE IF default_executor[gate_last.gate] # NoExecutor
                    THEN default_executor[gate_last.gate] ELSE "f()"

C10_Witness ==
    \E t \in GateThreads, u \in GateThreads :
        /\ t # u
        /\ gate_last # <<>>
        /\ gate_last.thread = t
        /\ gate_last.owner = u
        /\ gate_last.called = "e2"
        /\ gate_own[u][gate_last.gate] = "e1"
        /\ cache.tstate = u
        /\ cache.gate = gate_last.gate
        /\ cache.executor = "e1"
        /\ GateExecutor(t, gate_last.gate) = "e2"

\* C38: the cache entry never outlives the thread or the Gate it was
\* populated for: at any time, also after a thread or a Gate was replaced by
\* a new one with the same address, what a thread resolves for a gate is the
\* thread's own override, or else the gate's default.
C38_CacheNeverOutlives ==
    \A t \in GateThreads, g \in Gates : GateExecutor(t, g) = GateLoaded(t, g).executor

-----------------------------------------------------------------------------
(***************************************************************************)
(* Properties of ApplyWith and GateContext.                                *)
(***************************************************************************)

\* The open frames of a thread.
ScopeFrames(t) == {gate_stack[t][i] : i \in DOMAIN gate_stack[t]}

C12_GateContextRestores ==
    (scope_last # <<>> /\ scope_last.kind = "ctx")
        => scope_last.after = scope_last.before

\* C13: for a ThreadState constructed with states A and B, a thread that has
\* not used it yet reads A; right after the thread entered a select(B) scope
\* from state A it reads B; and right after it left that scope it reads A
\* again.
C13_SelectScope ==
    /\ \A t \in TSThreads : \A s \in ThreadStates :
           s \notin ts_used[t] => TSValue(t, s) = default_state(s)
    /\ \A t \in TSThreads : \A i \in DOMAIN ts_stack[t] :
           ts_stack[t][i].kind = "select" =>
               ts_stack[t][i].entered = state_for(ts_stack[t][i].state, ts_stack[t][i].desired)
    /\ (ts_op # <<>> /\ ts_op.kind = "exit" /\ ts_op.prior # ts_op.arg) =>
           TSValue(ts_op.thread, ts_op.state) = ts_op.prior

\* A thread in state A has just left a select(B) scope and reads A.
C13_Witness ==
    /\ ts_op # <<>> /\ ts_op.kind = "exit"
    /\ ts_op.prior = "A" /\ ts_op.arg = "B"
    /\ ts_stack[ts_op.thread] = <<>>
    /\ TSValue(ts_op.thread, ts_op.state) = "A"

\* C14: a step taken by one thread never changes the value any other thread
\* reads from the same ThreadState.
C14_ThreadsIndependent ==
    [][\A t \in TSThreads : \A s \in ThreadStates :
           (ts_op' # <<>> /\ ts_op'.thread # t) => TSValue(t, s)' = TSValue(t, s)]_vars

\* Thread 1 reads B from the ThreadState right after thread 2 wrote A to it
\* and reads A from it.
C14_Witness ==
    /\ ts_op # <<>> /\ ts_op.kind = "set" /\ ts_op.thread = 2 /\ ts_op.arg = "A"
    /\ ts_op.prior = "B"
    /\ TSValue(2, ts_op.state) = "A"
    /\ TSValue(1, ts_op.state) = "B"
    /\ ts_op.state \in ts_used[1]

\* C15: right after a thread wrote a recognised state v to value, it reads v,
\* also when the write was the thread's first access; and right after a write
\* of an unrecognised value was refused with a TypeError, it reads what it
\* read before.
C15_WriteThenRead ==
    /\ (ts_op # <<>> /\ ts_op.kind = "set") =>
           TSValue(ts_op.thread, ts_op.state) = ts_op.arg
    /\ (ts_op # <<>> /\ ts_op.kind = "TypeError") =>
           TSValue(ts_op.thread, ts_op.state) = ts_op.prior

\* C16: function starts to run with the calling thread in desired_state, and
\* right after the wrapper's call ended the thread reads the state it was in
\* immediately before the call.
C16_WrapRestores ==
    /\ \A t \in TSThreads : \A i \in DOMAIN ts_stack[t] :
           ts_stack[t][i].kind = "wrap" =>
               ts_stack[t][i].entered = state_for(ts_stack[t][i].state, ts_stack[t][i].desired)
    /\ (ts_op # <<>> /\ ts_op.kind = "return") =>
           TSValue(ts_op.thread, ts_op.state) = ts_op.prior

\* C17: a sticky wrapper whose function returned a callable result returns
\* that result wrapped, whatever state the thread was in at the call.
C17_StickyWraps ==
    (ts_op # <<>> /\ ts_op.kind = "return" /\ ts_op.sticky /\ ts_op.callable) =>
        ts_op.wrapped

\* C36: two distinct descriptors used on the same thread are independent: an
\* operation of a thread on one descriptor (a read, a write, entering or
\* leaving a select scope) leaves unchanged the value the thread reads from
\* every other descriptor.
C36_DescriptorsIndependent ==
    [][\A t \in TSThreads, o \in TSDescriptors :
          (ts_op'.thread = t /\ ts_op'.state # o) => TSValue(t, o)' = TSValue(t, o)]_vars

\* C39: right after a select scope was left, the thread reads the state it
\* was in immediately before the scope was entered, whatever happened inside
\* the block; also when that state was the selected one and the block changed
\* the thread's state.
C39_SelectRestores ==
    (ts_op # <<>> /\ ts_op.kind = "exit") =>
        TSValue(ts_op.thread, ts_op.state) = ts_op.prior

\* C18: a call that went through on_call, whose FrameEval record has all
\* three hooks and stayed installed until the call returned, and whose hooks
\* all succeeded, has invoked exactly one of on_result / on_error: on_result
\* for a value, on_error for an exception, with the context on_call returned
\* for this call and the callee's outcome; and the caller observes the
\* callee's outcome.
C18_ExactlyOneHook ==
    (/\ fe_last # <<>>
     /\ fe_last.on_call = "returned"
     /\ ~fe_last.stale
     /\ fe_last.hooks = FEHooks
     /\ fe_last.observed # "hook exception")
    => /\ fe_last.called = IF fe_last.outcome = "value" THEN {"on_result"} ELSE {"on_error"}
       /\ fe_last.context # "None"
       /\ fe_last.hook_context = fe_last.context
       /\ fe_last.hook_saw = fe_last.outcome
       /\ fe_last.observed = fe_last.outcome

\* A call whose frame raised has returned after on_call and on_error both
\* succeeded, all hooks being installed.
C18_Witness ==
    /\ fe_last # <<>>
    /\ fe_last.on_call = "returned" /\ ~fe_last.stale /\ fe_last.hooks = FEHooks
    /\ fe_last.outcome = "exception"
    /\ fe_last.called = {"on_error"}
    /\ fe_last.observed = "exception"

\* C19: a call whose on_call raised, and whose FrameEval record stayed
\* installed until the call returned, was run by the saved original
\* evaluator, invoked neither on_result nor on_error, and its caller
\* observes the callee's own outcome, not on_call's error.
C19_OnCallRaises ==
    (fe_last # <<>> /\ fe_last.on_call = "raised" /\ ~fe_last.stale)
    => /\ fe_last.by = fe_original
       /\ fe_last.called = {}
       /\ fe_last.observed = fe_last.outcome

\* A call whose on_call raised has returned the value of its frame while
\* on_result was installed.
C19_Witness ==
    /\ fe_last # <<>>
    /\ fe_last.on_call = "raised" /\ ~fe_last.stale
    /\ fe_last.hooks = FEHooks
    /\ fe_last.outcome = "value" /\ fe_last.observed = "value"

\* C20: whenever a FrameEval_Remove came after one or more FrameEval_Install
\* calls and no Install has followed it, the interpreter's frame-evaluation
\* function is the one it had before the first Install and there is no entry
\* under interpreter_key.
C20_RemoveRestores ==
    (fe_round.removed /\ fe_round.installs >= 1)
    => /\ eval_frame = fe_original
       /\ eval_frame # "wrapper"
       /\ fe_entry = NoEntry

\* Two Installs in a row, then a Remove, in an interpreter that started with
\* an evaluator of somebody else.
C20_Witness ==
    /\ fe_round = [installs |-> 2, removed |-> TRUE]
    /\ fe_original = "other" /\ eval_frame = "other"
    /\ fe_entry = NoEntry

\* C21: a read of function, locals or globals on a CurrentFrame object, made
\* after a call whose hook was given that object has returned, raises a
\* runtime error.
C21_ReadAfterReturnRaises ==
    (fe_read # <<>> /\ fe_read.returned) => fe_read.result = "RuntimeError"

\* Thread t is inside a hook: one of its calls in progress is at on_call,
\* on_result or on_error.
FEInHook(t) == \E i \in DOMAIN fe_stack[t] : fe_stack[t][i].pc \in FEHooks

\* C37: the per-thread flag in_callback is set only while a hook is
\* executing: whenever the thread is outside every hook, in particular after
\* the trampoline has returned whatever the hooks did, the flag is clear.
C37_FlagOnlyInsideHooks ==
    \A t \in FEThreads : (~fe_crashed /\ in_callback[t]) => FEInHook(t)

\* The same, only at the return of the outermost call of the thread.
FEFlagClearAtReturn ==
    \A t \in FEThreads : (~fe_crashed /\ in_callback[t]) => fe_stack[t] # <<>>

\* The included frames of the interpreter stack, newest first, as func and
\* instruction offset.
StackIncluded ==
    LET kept == SelectSeq(py_frames, LAMBDA fr : is_included(fr.func, exclude))
    IN [i \in DOMAIN kept |-> [func |-> kept[Len(kept) + 1 - i].func,
                               instruction |-> kept[Len(kept) + 1 - i].instr]]

\* What the nodes of a sequence say: func and instruction of each.
StackContent(nodes) ==
    [i \in DOMAIN nodes |-> [func |-> sf_heap[nodes[i]].func,
                             instruction |-> sf_heap[nodes[i]].instruction]]

\* The Stack nodes alive on the heap.
StackLive == {a \in StackAddresses : sf_heap[a].func # "free"}

\* C22: when a snapshot S2 has just been taken while the thread's cached
\* snapshot was S1, and the included stack is S1's frames plus one more
\* innermost frame, then the chain of S2 is one new node followed by the very
\* nodes of S1, and S2.changes_from(S1) is pop-count 0 and one frame, S2's
\* newest node.
C22_SnapshotSharesNodes ==
    (/\ sf_op.kind \in {"call", "delta"}
     /\ sf_op.prev # NoStack
     /\ Len(StackIncluded) = Len(StackChain(sf_heap, sf_op.prev)) + 1
     /\ SubSeq(StackIncluded, 2, Len(StackIncluded))
            = StackContent(StackChain(sf_heap, sf_op.prev)))
    => /\ sf_op.new # NoStack
       /\ sf_op.new \notin StackNodes(sf_heap, sf_op.prev)
       /\ sf_heap[sf_op.new].next = sf_op.prev
       /\ StackChain(sf_heap, sf_op.new) = <<sf_op.new>> \o StackChain(sf_heap, sf_op.prev)
       /\ changes_from(sf_heap, sf_op.new, sf_op.prev) = [pop |-> 0, frames |-> <<sf_op.new>>]

\* S2 has been taken one call deeper than S1, below a caller that moved on
\* before S1 was taken.
C22_Witness ==
    /\ sf_op.kind = "call"
    /\ sf_op.prev # NoStack /\ sf_op.new # NoStack
    /\ Len(py_frames) = 2 /\ exclude = {}
    /\ py_frames[1].instr = 1
    /\ sf_heap[sf_op.new].next = sf_op.prev
    /\ StackContent(StackChain(sf_heap, sf_op.new)) = StackIncluded

\* C23: for every Stack self and every other that is a live Stack of the
\* factory or none, self.changes_from(other) = (p, frames) is such that the
\* chain of other without its p newest nodes, with frames put in front, is
\* the chain of self; 0 <= p <= len(other) and
\* len(self) = len(other) - p + len(frames).
C23_ChangesFromIsTheEdit ==
    \A self \in StackLive : \A other \in StackLive \cup {NoStack} :
        LET edit == changes_from(sf_heap, self, other)
            theirs == StackChain(sf_heap, other)
            len_other == IF other = NoStack THEN 0 ELSE sq_length(sf_heap, other)
        IN /\ edit.pop >= 0 /\ edit.pop <= len_other
           /\ len_other = Len(theirs)
           /\ StackChain(sf_heap, self)
                  = edit.frames \o SubSeq(theirs, edit.pop + 1, Len(theirs))
           /\ sq_length(sf_heap, self) = len_other - edit.pop + Len(edit.frames)

\* changes_from has just been called on two snapshots of different lengths
\* that share nothing: it popped all of other and pushed all of self.
C23_Witness ==
    /\ sf_op.kind = "changes_from"
    /\ sf_op.prev # NoStack
    /\ sf_op.pop = 1 /\ Len(sf_op.frames) = 2
    /\ sf_op.frames = StackChain(sf_heap, sf_op.new)

C25_IterationOrder ==
    (ss_op.kind = "iter" /\ ss_op.result = "done") => ss_op.yielded = ss_live

\* C26: a copy() that returns gives a set whose order log has no tombstone
\* and exactly as many entries as the copy has elements.
C26_CopyCompact ==
    (ss_op.kind = "copy" /\ ss_op.result = "done") =>
        /\ \A i \in DOMAIN ss_op.order : ~is_delete(ss_op.order[i])
        /\ Len(ss_op.order) = ss_op.used

\* A copy has been made of a set whose order log held a tombstone and the
\* entry it cancels, and that still had all the elements it was constructed
\* from.
C26_Witness ==
    /\ ss_op.kind = "copy" /\ ss_op.result = "done"
    /\ ss_op.dropped = 2
    /\ ss_op.used = SSPreload /\ ss_op.order = ss_live

\* C40: right after symmetric_difference_update(other) an iteration of the
\* set would hand out exactly the elements of the resulting set, each once,
\* the retained ones in their previous relative order and then the newly
\* added ones, and the order log holds no entry for a removed element.
C40_SymmetricDifferenceOrder ==
    (ss_op.kind = "symdiff" /\ ss_op.result = "done") =>
        /\ SSCompacted(ss_order, ss_set) = ss_live
        /\ \A i \in DOMAIN ss_order :
               /\ ss_order[i] # 0
               /\ ~is_delete(ss_order[i])
               /\ SSContains(ss_set, SSObject(ss_order[i]))

\* C27: every call of hash(o) on a live instance o of the patched type
\* returns the value that the first successful call on o returned.
C27_HashStable ==
    \A o \in ph_alive :
        (ph_first[o] # NoHash /\ ph_last[o] # NoHash) => ph_last[o] = ph_first[o]

\* C28: once the wrapper's call has reached the handler or gone wrong, the
\* handler has been invoked exactly once with the target first, then the
\* caller's positional arguments and keyword arguments, on the borrowed-slot
\* path and on the scratch-array path; and the wrapper returns what the
\* handler returned.
C28_ForwardsToHandler ==
    wf_pc # "ready" =>
        /\ wf_calls = 1
        /\ wf_seen = [first |-> "target", args |-> wf_in.args,
                      kwnames |-> wf_in.kw.names, kwvalues |-> wf_in.kw.values]
        /\ wf_pc = "returned" => wf_ret.wrapper = wf_ret.handler

\* C29: an IdDict holds one entry per live key object that was assigned,
\* with the value last assigned through that very object, also when another
\* live key is equal to it by value; a destroyed key object has no entry, the
\* length is the number of live assigned keys, and the dictionary holds
\* exactly one reference to a value per entry that maps to it.
C29_IdentityAndEviction ==
    ~id_crashed =>
        /\ \A k \in IDKeys : contents[k] = id_expected[k]
        /\ \A k \in IDKeys \ id_alive : contents[k] = NoValue
        /\ len = Cardinality({k \in id_alive : id_expected[k] # NoValue})
        /\ \A v \in IDValues : id_held[v] = Cardinality({k \in IDKeys : contents[k] = v})
        /\ id_op.kind = "getitem" =>
               id_op.result = IF id_expected[id_op.key] # NoValue
                              THEN id_expected[id_op.key] ELSE "KeyError"

\* Two equal key objects were given different values, one of them has just
\* been destroyed and its value released, the other still has its entry.
C29_Witness ==
    /\ id_op.kind = "destroyed" /\ id_op.key = 1 /\ id_op.result = "u"
    /\ IDEquality(1) = IDEquality(2)
    /\ 2 \in id_alive /\ contents[2] = "v"
    /\ contents[1] = NoValue
    /\ len = 1 /\ id_held["u"] = 0
    /\ ~id_crashed

\* The position of the first callable that raises, or 0.
RAFirstRaising ==
    IF \E i \in DOMAIN functions : functions[i] = "raises"
    THEN CHOOSE i \in DOMAIN functions :
             functions[i] = "raises" /\ \A j \in 1 .. i - 1 : functions[j] = "returns"
    ELSE 0

\* C30: the callables are invoked in construction order with the call's
\* arguments; when one raises, none after it is invoked and the call raises
\* its exception; when none raises, all are invoked and the call returns None.
C30_RunAllShortCircuit ==
    /\ \A k \in DOMAIN ra_log : ra_log[k] = [function |-> k, args |-> ra_args]
    /\ RAFirstRaising # 0 => Len(ra_log) <= RAFirstRaising
    /\ ra_result.kind = "raised" =>
           /\ ra_result.by = RAFirstRaising
           /\ Len(ra_log) = RAFirstRaising
    /\ ra_result.kind = "None" =>
           /\ RAFirstRaising = 0
           /\ Len(ra_log) = Len(functions)
    /\ RAFirstRaising = 0 => ra_result.kind # "raised"

\* RunAll(f1, f2, f3) with f2 raising has been called and has raised after
\* calling f1 and f2.
C30_Witness ==
    /\ functions = <<"returns", "raises", "returns">>
    /\ ra_result = [kind |-> "raised", by |-> 2]
    /\ Len(ra_log) = 2

\* C31: for IdSet as for FastSet, right after remove(x) on a member x, x is
\* not a member; and remove(x) on an absent x raises a not-found error.
C31_RemoveRemoves ==
    is_op.op = "remove" =>
        IF is_op.was THEN ~contains(is_op.set, is_op.obj)
        ELSE is_op.result = "KeyError"

\* The generations that qualify for the multiplier the caller passed.
CPQualifying == {g \in CPGenerations : generations[g].count * cp_arg > generations[g].threshold}

\* The arithmetic of the call is that of the integers: the multiplier fits the
\* int field and no product leaves the int range.
CPExact ==
    /\ CPFits(cp_arg)
    /\ \A g \in CPGenerations : CPFits(generations[g].count * cp_arg)

C33_LookupTerminates ==
    [][(oa_pc = "find_callback" /\ oa_pc' = "find_callback") => oa_cls' = tp_base(oa_cls)]_vars

\* C34: when create_wrapped has returned for a type that is not a subtype of
\* Wrapped, or whose tp_new or tp_init is not Wrapped's, it has raised
\* TypeError and returned no object; an instance is returned only for a type
\* that passes all three checks.
C34_ChecksRefuse ==
    cw_pc = "returned" =>
        IF cw_cls.subtype /\ cw_cls.tp_new /\ cw_cls.tp_init
        THEN cw_error = "none"
        ELSE cw_error = "TypeError" /\ cw_self = 0
=============================================================================
